---- MODULE Spec2Model ----
(***************************************************************************)
(* Model of the request-signing core of oss-rust-sdk: the canonical        *)
(* resource encoder (src/src/oss.rs), the request signer                   *)
(* (src/src/auth.rs) and the header construction they rely on              *)
(* (src/src/utils.rs).                                                     *)
(*                                                                         *)
(* A Rust string is modelled as the sequence of its bytes (naturals        *)
(* 0..255); B("acl") is the byte sequence of an ASCII literal.  A HashMap  *)
(* is a function together with the order in which iter() yields its keys,  *)
(* which the program does not control.  A HeaderMap built by insert() is   *)
(* the sequence of its (name, value) entries in iteration order.           *)
(***************************************************************************)
EXTENDS Naturals, Sequences, FiniteSets, TLC

(***************************************************************************)
(* Bounds of the model.                                                    *)
(***************************************************************************)
MaxParams == 3
MaxHeaders == 2

(***************************************************************************)
(* Strings as byte sequences.                                              *)
(***************************************************************************)
\* The ASCII characters 32..95 and 97..126 in the order of their codes (the
\* grave accent, 96, cannot be written in a string literal and is not used).
AsciiLow == " !\"#$%&'()*+,-./0123456789:;<=>?@ABCDEFGHIJKLMNOPQRSTUVWXYZ[\\]^_"
AsciiHigh == "abcdefghijklmnopqrstuvwxyz{|}~"

Code(c) ==
  IF c = "\n" THEN 10
  ELSE IF c = "\t" THEN 9
  ELSE IF \E i \in 1..Len(AsciiLow) : SubSeq(AsciiLow, i, i) = c
       THEN 31 + (CHOOSE i \in 1..Len(AsciiLow) : SubSeq(AsciiLow, i, i) = c)
       ELSE 96 + (CHOOSE i \in 1..Len(AsciiHigh) : SubSeq(AsciiHigh, i, i) = c)

B(s) == [i \in 1..Len(s) |-> Code(SubSeq(s, i, i))]

\* str::cmp / String::cmp: lexicographic comparison of the bytes.
RECURSIVE StrCmp(_, _)
StrCmp(a, b) ==
  IF a = <<>> THEN (IF b = <<>> THEN "Equal" ELSE "Less")
  ELSE IF b = <<>> THEN "Greater"
  ELSE IF a[1] < b[1] THEN "Less"
  ELSE IF a[1] > b[1] THEN "Greater"
  ELSE StrCmp(Tail(a), Tail(b))

Range(seq) == { seq[i] : i \in 1..Len(seq) }

\* str::contains(pat)
StrContains(s, pat) ==
  \E i \in 1..(Len(s) + 1) :
    /\ i + Len(pat) - 1 <= Len(s)
    /\ SubSeq(s, i, i + Len(pat) - 1) = pat

\* slice::contains
SeqContains(seq, x) == \E i \in 1..Len(seq) : seq[i] = x

\* The literals of the code.
Amp == B("&")
EqualsSign == B("=")
QuestionMark == B("?")
Slash == B("/")
Colon == B(":")
Newline == B("\n")
VendorPrefix == B("x-oss-")
OssScheme == B("OSS ")
DATE == B("date")
CONTENT_TYPE == B("content-type")
ContentMd5 == B("Content-MD5")
TokenPunctuation == Range(B("!#$%&'*+-.^_|~")) \cup {96}

\* Option<S>
None == [some |-> FALSE, val |-> <<>>]
Some(v) == [some |-> TRUE, val |-> v]

(***************************************************************************)
(* slice::sort_by with a comparison of the first components: a stable      *)
(* sort, so entries that compare equal keep their order.                   *)
(***************************************************************************)
RECURSIVE InsertByKey(_, _)
InsertByKey(sorted, e) ==
  IF sorted = <<>> THEN <<e>>
  ELSE LET last == sorted[Len(sorted)] IN
       IF StrCmp(e[1], last[1]) = "Less"
       THEN Append(InsertByKey(SubSeq(sorted, 1, Len(sorted) - 1), e), last)
       ELSE Append(sorted, e)

\* A sort_by that leaves the entries as iter yielded them.
SortByKey_unsorted(entries) == entries

RECURSIVE SortByKey(_)
SortByKey(entries) ==
  IF entries = <<>> THEN <<>>
  ELSE InsertByKey(SortByKey(SubSeq(entries, 1, Len(entries) - 1)),
                   entries[Len(entries)])

(***************************************************************************)
(* src/src/oss.rs: the allow-list and the canonical resource encoder.      *)
(***************************************************************************)
RESOURCES == <<
  B("acl"), B("uploads"), B("location"), B("cors"), B("logging"),
  B("website"), B("referer"), B("lifecycle"), B("delete"), B("append"),
  B("tagging"), B("objectMeta"), B("uploadId"), B("partNumber"),
  B("security-token"), B("position"), B("img"), B("style"), B("styleName"),
  B("replication"), B("replicationProgress"), B("replicationLocation"),
  B("cname"), B("bucketInfo"), B("comp"), B("qos"), B("live"), B("status"),
  B("vod"), B("startTime"), B("endTime"), B("symlink"), B("x-oss-process"),
  B("response-content-type"), B("response-content-language"),
  B("response-expires"), B("response-cache-control"),
  B("response-content-disposition"), B("response-content-encoding"),
  B("udf"), B("udfName"), B("udfImage"), B("udfId"), B("udfImageDesc"),
  B("udfApplication"), B("comp"), B("udfApplicationLog"), B("restore"),
  B("callback"), B("callback-var") >>

\* params.iter(): the entries of the map in the order iter yields the keys.
MapIter(params, iter) == [i \in 1..Len(iter) |-> <<iter[i], params[iter[i]]>>]

\* The loop shared by get_resources_str and get_params_str.
RECURSIVE JoinEntries(_, _)
JoinEntries(result, entries) ==
  IF entries = <<>> THEN result
  ELSE LET k == entries[1][1]
           v == entries[1][2]
           sep == IF result # <<>> THEN Amp ELSE <<>>
           item == IF v.some THEN k \o EqualsSign \o v.val ELSE k
       IN  JoinEntries(result \o sep \o item, Tail(entries))

\* get_resources_str without the filter on RESOURCES.
get_resources_str_unfiltered(params, iter) ==
  JoinEntries(<<>>, SortByKey(MapIter(params, iter)))

get_resources_str(params, iter) ==
  LET resources == SelectSeq(MapIter(params, iter),
                             LAMBDA e : SeqContains(RESOURCES, e[1]))
  IN  JoinEntries(<<>>, SortByKey(resources))

get_params_str(params, iter) ==
  JoinEntries(<<>>, SortByKey(MapIter(params, iter)))

(***************************************************************************)
(* base64::encode: the standard alphabet, with padding.                    *)
(***************************************************************************)
Base64Alphabet ==
  B("ABCDEFGHIJKLMNOPQRSTUVWXYZabcdefghijklmnopqrstuvwxyz0123456789+/")

RECURSIVE encode(_)
encode(bytes) ==
  LET sextet(n, k) == Base64Alphabet[((n \div (64 ^ k)) % 64) + 1]
      pad == EqualsSign[1]
  IN  IF bytes = <<>> THEN <<>>
      ELSE IF Len(bytes) = 1 THEN
        LET n == bytes[1] * 65536
        IN  << sextet(n, 3), sextet(n, 2), pad, pad >>
      ELSE IF Len(bytes) = 2 THEN
        LET n == bytes[1] * 65536 + bytes[2] * 256
        IN  << sextet(n, 3), sextet(n, 2), sextet(n, 1), pad >>
      ELSE
        LET n == bytes[1] * 65536 + bytes[2] * 256 + bytes[3]
        IN  << sextet(n, 3), sextet(n, 2), sextet(n, 1), sextet(n, 0) >>
              \o encode(SubSeq(bytes, 4, Len(bytes)))

(***************************************************************************)
(* The keyed digest of the hmac and sha1 crates (HmacSha1::new_varkey,     *)
(* update, finalize) is not computed bit by bit.  It is the ideal MAC: an  *)
(* injective encoding of the pair (key, message), so two digests are equal *)
(* exactly when both the keys and the messages are.                        *)
(***************************************************************************)
HmacSha1(key, message) == <<Len(key)>> \o key \o message

(***************************************************************************)
(* reqwest::header (the http crate): HeaderValue and HeaderMap.            *)
(***************************************************************************)
\* HeaderValue::to_str: Ok only if every byte is visible ASCII or a tab.
IsVisibleAscii(b) == (b >= 32 /\ b < 127) \/ b = 9
to_str(value) ==
  IF \A i \in 1..Len(value) : IsVisibleAscii(value[i])
  THEN [ok |-> TRUE, val |-> value]
  ELSE [ok |-> FALSE, val |-> <<>>]

\* Result::unwrap_or_default / unwrap_or("") on a Result<&str, _>
unwrap_or_default(r) == IF r.ok THEN r.val ELSE <<>>

\* Header names are stored in lower case and looked up case-insensitively.
to_ascii_lowercase(s) ==
  [i \in 1..Len(s) |-> IF s[i] >= 65 /\ s[i] <= 90 THEN s[i] + 32 ELSE s[i]]

\* HeaderMap::get: the value stored under the name, if any.
HeaderGet(headers, name) ==
  LET key == to_ascii_lowercase(name)
      hits == SelectSeq(headers, LAMBDA e : e[1] = key)
  IN  IF hits = <<>> THEN None ELSE Some(hits[1][2])

\* HeaderMap::insert: replaces the value of a name already present.
HeaderInsert(headers, name, value) ==
  LET key == to_ascii_lowercase(name) IN
  IF \E i \in 1..Len(headers) : headers[i][1] = key
  THEN [i \in 1..Len(headers) |->
          IF headers[i][1] = key THEN <<key, value>> ELSE headers[i]]
  ELSE Append(headers, <<key, value>>)

\* HeaderName::from_bytes: a non-empty token, stored in lower case.
IsTokenByte(b) ==
  \/ (b >= 48 /\ b <= 57) \/ (b >= 65 /\ b <= 90) \/ (b >= 97 /\ b <= 122)
  \/ b \in TokenPunctuation
HeaderNameFromBytes(name) ==
  IF name # <<>> /\ \A i \in 1..Len(name) : IsTokenByte(name[i])
  THEN [ok |-> TRUE, val |-> to_ascii_lowercase(name)]
  ELSE [ok |-> FALSE, val |-> "HttpInvalidHeaderName"]

\* str::parse::<HeaderValue>: every byte is 32 or more and not 127, or a tab.
HeaderValueParse(value) ==
  IF \A i \in 1..Len(value) :
       (value[i] >= 32 /\ value[i] # 127) \/ value[i] = 9
  THEN [ok |-> TRUE, val |-> value]
  ELSE [ok |-> FALSE, val |-> "HttpInvalidHeaderValue"]

(***************************************************************************)
(* src/src/utils.rs: to_headers.  The caller's HashMap is read in its      *)
(* iteration order; the first name or value that is refused ends the loop  *)
(* with the error.                                                         *)
(***************************************************************************)
RECURSIVE ToHeadersLoop(_, _)
ToHeadersLoop(headers, entries) ==
  IF entries = <<>> THEN [ok |-> TRUE, val |-> headers]
  ELSE LET name == HeaderNameFromBytes(entries[1][1])
           value == HeaderValueParse(entries[1][2])
       IN  IF ~name.ok THEN name
           ELSE IF ~value.ok THEN value
           ELSE ToHeadersLoop(HeaderInsert(headers, name.val, value.val),
                              Tail(entries))

\* to_headers that answers a refused name or value with an empty header set.
to_headers_lenient(hashmap, iter) ==
  LET built == ToHeadersLoop(<<>>, MapIter(hashmap, iter))
  IN  IF built.ok THEN built ELSE [ok |-> TRUE, val |-> <<>>]

to_headers(hashmap, iter) == ToHeadersLoop(<<>>, MapIter(hashmap, iter))

(***************************************************************************)
(* src/src/auth.rs: the request signer.                                    *)
(***************************************************************************)
\* get_oss_resource_str without the branch on the empty bucket.
get_oss_resource_str_with_object(bucket, object, oss_resources) ==
  LET res == IF oss_resources # <<>> THEN QuestionMark \o oss_resources ELSE <<>>
  IN  Slash \o bucket \o Slash \o object \o res

\* get_oss_resource_str that writes no slash before an empty object.
get_oss_resource_str_bucket_only(bucket, object, oss_resources) ==
  LET res == IF oss_resources # <<>> THEN QuestionMark \o oss_resources ELSE <<>>
  IN  IF bucket = <<>> \/ object = <<>>
      THEN Slash \o bucket \o res
      ELSE Slash \o bucket \o Slash \o object \o res

get_oss_resource_str(bucket, object, oss_resources) ==
  LET res == IF oss_resources # <<>> THEN QuestionMark \o oss_resources ELSE <<>>
  IN  IF bucket = <<>>
      THEN Slash \o bucket \o res
      ELSE Slash \o bucket \o Slash \o object \o res

\* The loop that renders the sorted vendor headers.
RECURSIVE RenderOssHeaders(_, _)
RenderOssHeaders(acc, entries) ==
  IF entries = <<>> THEN acc
  ELSE RenderOssHeaders(
         acc \o entries[1][1] \o Colon
             \o unwrap_or_default(to_str(entries[1][2])) \o Newline,
         Tail(entries))

\* headers.get(name).and_then(|v| Some(v.to_str().unwrap_or_default()))
\*        .unwrap_or_default()
header_str(headers, name) ==
  LET h == HeaderGet(headers, name)
  IN  IF h.some THEN unwrap_or_default(to_str(h.val)) ELSE <<>>

\* The same with encode(..) applied inside the Some.
content_md5_str(headers) ==
  LET h == HeaderGet(headers, ContentMd5)
  IN  IF h.some THEN encode(unwrap_or_default(to_str(h.val))) ELSE <<>>

\* The headers whose name contains "x-oss-", sorted by name, one line each.
oss_headers_str(headers) ==
  LET oss_headers == SelectSeq(headers,
                               LAMBDA e : StrContains(e[1], VendorPrefix))
  IN  RenderOssHeaders(<<>>, SortByKey(oss_headers))

\* The six parts joined by newlines: format!("{}\n{}\n{}\n{}\n{}\n{}", ..)
sign_str_newline_joined(verb, content_md5, content_type, date, oss_headers, oss_resource) ==
  verb \o Newline \o content_md5 \o Newline \o content_type \o Newline
       \o date \o Newline \o oss_headers \o Newline \o oss_resource

\* format!("{}\n{}\n{}\n{}\n{}{}", ..)
sign_str(verb, content_md5, content_type, date, oss_headers, oss_resource) ==
  verb \o Newline \o content_md5 \o Newline \o content_type \o Newline
       \o date \o Newline \o oss_headers \o oss_resource

\* The MAC keyed by key_id instead of key_secret.
authorization_keyed_by_id(key_id, key_secret, signed) ==
  LET sign_str_base64 == encode(HmacSha1(key_id, signed))
  IN  OssScheme \o key_id \o Colon \o sign_str_base64

\* The MAC of the signing string under the secret, encoded, after
\* "OSS " + key_id + ":".
authorization(key_id, key_secret, signed) ==
  LET sign_str_base64 == encode(HmacSha1(key_secret, signed))
  IN  OssScheme \o key_id \o Colon \o sign_str_base64

\* oss_sign that signs the bucket of the client instead of its argument.
oss_sign_reads_self(self, verb, key_id, key_secret, bucket, object, oss_resources, headers) ==
  LET date == header_str(headers, DATE)
      content_type == header_str(headers, CONTENT_TYPE)
      content_md5 == content_md5_str(headers)
      oss_headers == oss_headers_str(headers)
      oss_resource_str == get_oss_resource_str(self.bucket, object,
                                               oss_resources)
      signed == sign_str(verb, content_md5, content_type, date, oss_headers,
                         oss_resource_str)
  IN  [ date |-> date, content_type |-> content_type,
        content_md5 |-> content_md5, oss_headers_str |-> oss_headers,
        oss_resource_str |-> oss_resource_str, sign_str |-> signed,
        authorization |-> authorization(key_id, key_secret, signed) ]

\* oss_sign: the values of its locals when it returns; `authorization` is
\* the value returned.  `self` is the client the method is called on.
oss_sign(self, verb, key_id, key_secret, bucket, object, oss_resources, headers) ==
  LET date == header_str(headers, DATE)
      content_type == header_str(headers, CONTENT_TYPE)
      content_md5 == content_md5_str(headers)
      oss_headers == oss_headers_str(headers)
      oss_resource_str == get_oss_resource_str(bucket, object, oss_resources)
      signed == sign_str(verb, content_md5, content_type, date, oss_headers,
                         oss_resource_str)
  IN  [ date |-> date, content_type |-> content_type,
        content_md5 |-> content_md5, oss_headers_str |-> oss_headers,
        oss_resource_str |-> oss_resource_str, sign_str |-> signed,
        authorization |-> authorization(key_id, key_secret, signed) ]

(***************************************************************************)
(* The inputs the model draws.                                             *)
(***************************************************************************)
\* Parameter names: allow-listed ("acl", "style", "styleName"), not
\* allow-listed ("max-keys", "Prefix") and the empty name.
ParamKeys == { B("acl"), B("max-keys"), B("style"), B("styleName"),
               B("Prefix"), B("") }
ParamValues == { None, Some(B("5")) }

\* All sequences without repetition of at most n elements of S.
RECURSIVE Arrangements(_, _)
Arrangements(S, n) ==
  IF n = 0 THEN { <<>> }
  ELSE LET shorter == Arrangements(S, n - 1)
       IN  shorter \cup { Append(s, x) : s \in { t \in shorter : Len(t) = n - 1 },
                                         x \in S }
Distinct(seq) == Cardinality(Range(seq)) = Len(seq)
IterOrders(S, n) == { s \in Arrangements(S, n) : Distinct(s) }
ParamIterOrders == IterOrders(ParamKeys, MaxParams)
OrdersOf(S) == { s \in IterOrders(S, Cardinality(S)) : Range(s) = S }

\* Header names as callers write them, and header values: visible ASCII,
\* and "v" followed by the two bytes of a UTF-8 encoded U+00E9.
HeaderKeys == { B("Date"), B("Content-Type"), B("Content-MD5"),
                B("X-Oss-Meta-Foo"), B("my-x-oss-tag") }
HeaderValues == { B("ab"), B("v") \o <<195, 169>> }
HeaderIterOrders == IterOrders(HeaderKeys, MaxHeaders)

Verbs == { B("GET"), B("PUT") }
KeyIds == { B("id") }
KeySecrets == { B("sk") }
Buckets == { B(""), B("b") }
Objects == { B(""), B("o") }
OssResources == { B(""), B("acl") }
ClientBuckets == { B("b"), B("b2") }

\* The header maps of the calls that are repeated.
RepeatHeaderMaps ==
  { <<>>,
    << <<B("date"), B("ab")>> >>,
    << <<B("x-oss-meta-foo"), B("ab")>>, <<B("date"), B("ab")>> >> }

VARIABLES
  client,   \* the OSS struct: key_id, key_secret, endpoint, bucket
  op,       \* the operation that has just returned, or "idle"
  args,     \* its arguments
  ret,      \* its return value
  locals,   \* the locals of oss_sign when it returned
  earlier,  \* an earlier call of oss_sign the caller kept: arguments, result
  wire      \* the HTTP requests the operation in flight has sent
vars == <<client, op, args, ret, locals, earlier, wire>>

NoCall == [kept |-> FALSE, self |-> <<>>, args |-> <<>>, ret |-> <<>>]

Init ==
  /\ client = [key_id |-> B("id"), key_secret |-> B("sk"),
               endpoint |-> B("https://oss.example.com"), bucket |-> B("b")]
  /\ op = "idle"
  /\ args = <<>>
  /\ ret = <<>>
  /\ locals = <<>>
  /\ earlier = NoCall
  /\ wire = <<>>

\* OSS::set_bucket
SetBucket ==
  /\ op = "idle"
  /\ \E bucket \in ClientBuckets :
    /\ client' = [client EXCEPT !.bucket = bucket]
    /\ UNCHANGED <<op, args, ret, locals, earlier, wire>>

GetResourcesStr ==
  /\ op = "idle"
  /\ \E iter \in ParamIterOrders :
      \E params \in [Range(iter) -> ParamValues] :
      /\ op' = "get_resources_str"
      /\ args' = [params |-> params, iter |-> iter]
      /\ ret' = get_resources_str(params, iter)
      /\ UNCHANGED <<client, locals, earlier, wire>>

GetParamsStr ==
  /\ op = "idle"
  /\ \E iter \in ParamIterOrders :
      \E params \in [Range(iter) -> ParamValues] :
      /\ op' = "get_params_str"
      /\ args' = [params |-> params, iter |-> iter]
      /\ ret' = get_params_str(params, iter)
      /\ UNCHANGED <<client, locals, earlier, wire>>

\* A call of oss_sign with `headers`, a HeaderMap that to_headers built.
SignWith(verb, key_id, key_secret, bucket, object, oss_resources, headers) ==
  LET frame == oss_sign(client, verb, key_id, key_secret, bucket, object,
                        oss_resources, headers)
  IN  /\ op' = "oss_sign"
      /\ args' = [verb |-> verb, key_id |-> key_id, key_secret |-> key_secret,
                  bucket |-> bucket, object |-> object,
                  oss_resources |-> oss_resources, headers |-> headers]
      /\ ret' = frame.authorization
      /\ locals' = frame
      /\ UNCHANGED <<client, earlier, wire>>

OssSign ==
  /\ op = "idle"
  /\ \E iter \in HeaderIterOrders :
      \E hashmap \in [Range(iter) -> HeaderValues] :
      \E verb \in Verbs, key_id \in KeyIds, key_secret \in KeySecrets,
         bucket \in Buckets, object \in Objects, oss_resources \in OssResources :
        LET built == to_headers(hashmap, iter)
        IN  /\ built.ok
            /\ SignWith(verb, key_id, key_secret, bucket, object,
                        oss_resources, built.val)

\* The caller takes the result; arguments and result are dropped.
Return ==
  /\ op # "idle"
  /\ op' = "idle"
  /\ args' = <<>>
  /\ ret' = <<>>
  /\ locals' = <<>>
  /\ wire' = <<>>
  /\ UNCHANGED <<client, earlier>>

Next == SetBucket \/ GetResourcesStr \/ GetParamsStr \/ OssSign \/ Return

Spec == Init /\ [][Next]_vars

(***************************************************************************)
(* Repeated calls of oss_sign on one client: the caller keeps the          *)
(* arguments and the result of a call, the client's bucket may be swapped, *)
(* and oss_sign is called again.                                           *)
(***************************************************************************)
OssSignAgain ==
  /\ op = "idle"
  /\ \E headers \in RepeatHeaderMaps :
      \E verb \in Verbs, key_id \in KeyIds, key_secret \in KeySecrets,
         bucket \in Buckets, object \in Objects, oss_resources \in OssResources :
        SignWith(verb, key_id, key_secret, bucket, object, oss_resources,
                 headers)

Remember ==
  /\ op = "oss_sign"
  /\ earlier' = [kept |-> TRUE, self |-> client, args |-> args, ret |-> ret]
  /\ UNCHANGED <<client, op, args, ret, locals, wire>>

NextPure == SetBucket \/ OssSignAgain \/ Remember \/ Return

SpecPure == Init /\ [][NextPure]_vars

(***************************************************************************)
(* What the claims speak of, stated without the code's loops.              *)
(***************************************************************************)
Ascending(keys) ==
  \A i, j \in 1..Len(keys) : i < j => StrCmp(keys[i], keys[j]) = "Less"

\* The elements of the set S of strings in ascending byte order.
InAscendingOrder(S) == CHOOSE s \in OrdersOf(S) : Ascending(s)

RECURSIVE Join(_, _)
Join(items, sep) ==
  IF items = <<>> THEN <<>>
  ELSE IF Len(items) = 1 THEN items[1]
  ELSE items[1] \o sep \o Join(Tail(items), sep)

Rendered(k, v) == IF v.some THEN k \o B("=") \o v.val ELSE k

\* The '&'-join, in ascending key order, of the entries of params whose key
\* is in keys.
AmpJoin(params, keys) ==
  LET order == InAscendingOrder(keys)
  IN  Join([i \in 1..Len(order) |-> Rendered(order[i], params[order[i]])],
           B("&"))

AllowListed(params) == { k \in DOMAIN params : k \in Range(RESOURCES) }
Without(params, k) == [x \in DOMAIN params \ {k} |-> params[x]]

\* C1: get_resources_str returns the '&'-join, in ascending key order, of
\* the allow-listed entries, each rendered as key or key=value;
\* get_params_str returns the same join over all entries; a parameter that
\* is not allow-listed never changes get_resources_str; the empty map gives
\* the empty string.
C1_JoinOfSortedEntries ==
  /\ op = "get_resources_str" =>
       /\ ret = AmpJoin(args.params, AllowListed(args.params))
       /\ \A k \in DOMAIN args.params \ Range(RESOURCES) :
            \A iter \in OrdersOf(DOMAIN args.params \ {k}) :
              get_resources_str(Without(args.params, k), iter) = ret
  /\ op = "get_params_str" =>
       ret = AmpJoin(args.params, DOMAIN args.params)
  /\ op \in {"get_resources_str", "get_params_str"} /\ DOMAIN args.params = {} =>
       ret = B("")

\* The part of C1 the code keeps: the join for get_resources_str in every
\* case, and for get_params_str whenever no entry renders as the empty
\* string (the empty key without a value).
C1_JoinUnlessEmptyEntry ==
  /\ op = "get_resources_str" =>
       ret = AmpJoin(args.params, AllowListed(args.params))
  /\ op = "get_params_str"
       /\ ~(B("") \in DOMAIN args.params /\ ~args.params[B("")].some) =>
       ret = AmpJoin(args.params, DOMAIN args.params)

C1_EmptyKeyCase ==
  /\ op = "get_params_str"
  /\ Cardinality(DOMAIN args.params) = 2
  /\ B("") \in DOMAIN args.params
  /\ ~args.params[B("")].some

\* The entries of a HeaderMap inserted in another order.
Reordered(headers, order) == [i \in 1..Len(order) |-> headers[order[i]]]

VendorEntries(headers) ==
  SelectSeq(headers, LAMBDA e : StrContains(e[1], VendorPrefix))

\* C2: the order in which the HashMap yields the resource parameters, and
\* the order in which the headers were inserted, never change the result of
\* get_resources_str, get_params_str and oss_sign.
C2_OrderDoesNotMatter ==
  /\ op = "get_resources_str" =>
       \A iter \in OrdersOf(DOMAIN args.params) :
         get_resources_str(args.params, iter) = ret
  /\ op = "get_params_str" =>
       \A iter \in OrdersOf(DOMAIN args.params) :
         get_params_str(args.params, iter) = ret
  /\ op = "oss_sign" =>
       \A order \in OrdersOf(1..Len(args.headers)) :
         oss_sign(client, args.verb, args.key_id, args.key_secret,
                  args.bucket, args.object, args.oss_resources,
                  Reordered(args.headers, order)).authorization = ret

\* Two vendor headers were inserted in descending order of their names.
C2_VendorHeadersOutOfOrder ==
  /\ op = "oss_sign"
  /\ Len(VendorEntries(args.headers)) = 2
  /\ StrCmp(VendorEntries(args.headers)[1][1],
            VendorEntries(args.headers)[2][1]) = "Greater"

\* The parameter map {"max-keys": Some("5"), "acl": None}.
MaxKeysAndAcl ==
  [k \in {B("max-keys"), B("acl")} |->
     IF k = B("acl") THEN None ELSE Some(B("5"))]

\* C3 as stated: get_resources_str returns "acl&max-keys=5" for the map
\* {"max-keys": Some("5"), "acl": None}.
C3_SignableHasMaxKeys ==
  op = "get_resources_str" /\ args.params = MaxKeysAndAcl =>
    ret = B("acl&max-keys=5")

\* C3 as amended: for the map {"max-keys": Some("5"), "acl": None}
\* get_resources_str returns "acl", because "max-keys" is not in RESOURCES;
\* "acl&max-keys=5" is what get_params_str returns for it.
C3_SignableIsAclOnly ==
  /\ op = "get_resources_str" /\ args.params = MaxKeysAndAcl => ret = B("acl")
  /\ op = "get_params_str" /\ args.params = MaxKeysAndAcl =>
       ret = B("acl&max-keys=5")

C3_MaxKeysAndAclEncoded ==
  /\ op = "get_resources_str"
  /\ args.params = MaxKeysAndAcl
  /\ args.iter = <<B("max-keys"), B("acl")>>

\* "?" + signable iff signable is not empty.
QuerySuffix(signable) ==
  IF signable = B("") THEN B("") ELSE B("?") \o signable

\* C4: the canonical resource is "/" + bucket + "/" + object, then "?" +
\* signable iff signable is not empty, when the bucket is not empty; with
\* an empty bucket it is "/", then "?" + signable iff signable is not
\* empty, whatever the object.
C4_CanonicalResource ==
  op = "oss_sign" =>
    /\ args.bucket # B("") =>
         locals.oss_resource_str =
           B("/") \o args.bucket \o B("/") \o args.object
             \o QuerySuffix(args.oss_resources)
    /\ args.bucket = B("") =>
         locals.oss_resource_str = B("/") \o QuerySuffix(args.oss_resources)
    /\ args.bucket = B("b") /\ args.object = B("o")
         /\ args.oss_resources = B("acl") =>
         locals.oss_resource_str = B("/b/o?acl")

C4_EmptyBucketWithObject ==
  /\ op = "oss_sign"
  /\ args.bucket = B("")
  /\ args.object = B("o")
  /\ args.oss_resources = B("acl")
  /\ locals.oss_resource_str = B("/?acl")

IsSuffix(suffix, s) ==
  /\ Len(suffix) <= Len(s)
  /\ SubSeq(s, Len(s) - Len(suffix) + 1, Len(s)) = suffix

\* C5 as stated: with a bucket and an empty object the canonical resource
\* in the signing string is "/" + bucket, without a trailing slash.
C5_NoTrailingSlash ==
  op = "oss_sign" /\ args.bucket # B("") /\ args.object = B("") =>
    locals.oss_resource_str =
      B("/") \o args.bucket \o QuerySuffix(args.oss_resources)

\* C5 as amended: with a bucket and an empty object (as list_object passes)
\* the canonical resource that ends the signing string is "/" + bucket +
\* "/", with the trailing slash: bucket "b" and no signable parameters
\* give "/b/".
C5_TrailingSlash ==
  op = "oss_sign" /\ args.bucket # B("") /\ args.object = B("") =>
    /\ IsSuffix(B("/") \o args.bucket \o B("/")
                  \o QuerySuffix(args.oss_resources), locals.sign_str)
    /\ args.bucket = B("b") /\ args.oss_resources = B("") =>
         locals.oss_resource_str = B("/b/")

C5_BucketWithoutObject ==
  /\ op = "oss_sign"
  /\ args.verb = B("GET")
  /\ args.bucket = B("b")
  /\ args.object = B("")
  /\ args.oss_resources = B("")
  /\ locals.oss_resource_str = B("/b/")

\* The value of a header as the HeaderMap carries it, "" if it is absent.
HeaderValueOf(headers, name) ==
  LET h == HeaderGet(headers, name) IN IF h.some THEN h.val ELSE B("")

\* C6: the string given to the HMAC is VERB "\n" M "\n" T "\n" D "\n" H R:
\* M the base64 encoding of the Content-MD5 header value ("" if absent), T
\* and D the Content-Type and Date header values ("" if absent), H the
\* vendor-header lines, R the canonical resource; without vendor headers R
\* follows the newline that ends the Date line.
C6_SigningString ==
  op = "oss_sign" =>
    LET M == IF HeaderGet(args.headers, B("Content-MD5")).some
             THEN encode(HeaderValueOf(args.headers, B("Content-MD5")))
             ELSE B("")
        T == HeaderValueOf(args.headers, B("Content-Type"))
        D == HeaderValueOf(args.headers, B("Date"))
        H == locals.oss_headers_str
        R == locals.oss_resource_str
    IN  /\ locals.sign_str =
             args.verb \o B("\n") \o M \o B("\n") \o T \o B("\n") \o D
               \o B("\n") \o H \o R
        /\ VendorEntries(args.headers) = <<>> => H = B("")

\* The part of C6 the code keeps: the same, for header sets in which
\* Content-MD5, Content-Type and Date are absent or visible ASCII.
AllVisible(value) == \A i \in 1..Len(value) : IsVisibleAscii(value[i])
C6_SigningStringOfVisibleValues ==
  op = "oss_sign"
    /\ (\A n \in {B("Content-MD5"), B("Content-Type"), B("Date")} :
          AllVisible(HeaderValueOf(args.headers, n))) =>
    C6_SigningString

C6_ContentTypeNotAscii ==
  /\ op = "oss_sign"
  /\ HeaderGet(args.headers, B("Content-Type")).some
  /\ ~AllVisible(HeaderValueOf(args.headers, B("Content-Type")))
  /\ locals.content_type = B("")

\* The vendor-header lines without the newline that ends the last one.
BlockWithoutLastNewline(block) ==
  IF block = <<>> THEN block ELSE SubSeq(block, 1, Len(block) - 1)

\* C7 as stated: the signing string is the six parts verb, content-md5,
\* content-type, date, vendor-headers block and canonical resource with a
\* newline between every two consecutive parts, for every header set.
C7_SixPartsNewlineJoined ==
  op = "oss_sign" =>
    locals.sign_str =
      Join(<< args.verb, locals.content_md5, locals.content_type, locals.date,
              BlockWithoutLastNewline(locals.oss_headers_str),
              locals.oss_resource_str >>, B("\n"))

\* C7 as amended: verb, content-md5, content-type and date are each
\* followed by a newline; a newline separates the vendor-headers block from
\* the canonical resource exactly when the block is not empty; with no
\* vendor headers the canonical resource follows the newline after the date
\* directly.
C7_NewlineOnlyAfterNonEmptyBlock ==
  op = "oss_sign" =>
    LET first == Join(<< args.verb, locals.content_md5, locals.content_type,
                         locals.date >>, B("\n")) \o B("\n")
        block == BlockWithoutLastNewline(locals.oss_headers_str)
    IN  locals.sign_str =
          IF block = B("") THEN first \o locals.oss_resource_str
          ELSE first \o block \o B("\n") \o locals.oss_resource_str

C7_EmptyVendorBlock ==
  /\ op = "oss_sign"
  /\ VendorEntries(args.headers) = <<>>
  /\ args.headers # <<>>
  /\ locals.oss_headers_str = B("")
  /\ args.bucket = B("b") /\ args.object = B("o")

\* The lines name ":" value "\n" of the headers whose name is in names, in
\* ascending order of the names, with the values the HeaderMap carries.
VendorLines(headers, names) ==
  LET order == InAscendingOrder(names)
  IN  Join([i \in 1..Len(order) |->
              order[i] \o B(":") \o HeaderValueOf(headers, order[i]) \o B("\n")],
           B(""))

VendorNames(headers) ==
  { headers[i][1] : i \in { j \in 1..Len(headers) :
                              StrContains(headers[j][1], B("x-oss-")) } }

\* C8: the vendor-headers block has one line name ":" value "\n" for each
\* header whose name contains "x-oss-" and none for any other header, in
\* ascending order of the header names.
C8_VendorBlock ==
  op = "oss_sign" =>
    locals.oss_headers_str = VendorLines(args.headers, VendorNames(args.headers))

\* The part of C8 the code keeps: the same, for header sets whose vendor
\* headers have visible ASCII values.
C8_VendorBlockOfVisibleValues ==
  op = "oss_sign"
    /\ (\A n \in VendorNames(args.headers) :
          AllVisible(HeaderValueOf(args.headers, n))) =>
    C8_VendorBlock

C8_VendorValueNotAscii ==
  /\ op = "oss_sign"
  /\ \E n \in VendorNames(args.headers) :
       ~AllVisible(HeaderValueOf(args.headers, n))

C10_SameArgumentsSameResult ==
  op = "oss_sign" /\ earlier.kept /\ earlier.args = args => earlier.ret = ret

\* The call is repeated after the bucket of the client was swapped.
C10_RepeatedOnChangedClient ==
  /\ op = "oss_sign"
  /\ earlier.kept
  /\ earlier.args = args
  /\ earlier.self.bucket # client.bucket
  /\ args.bucket = B("b")

(***************************************************************************)
(* src/src/oss.rs: host, date and build_request.                           *)
(***************************************************************************)
Https == B("https")
HttpsScheme == B("https://")
HttpScheme == B("http://")
Dot == B(".")
Space == B(" ")
CommaSpace == B(", ")
Gmt == B(" GMT")
AUTHORIZATION == B("Authorization")
Digits == B("0123456789")

\* str::starts_with
starts_with(s, pat) == Len(pat) <= Len(s) /\ SubSeq(s, 1, Len(pat)) = pat

\* str::find: the index of the first occurrence of pat in s, 0 if none.
find(s, pat) ==
  LET Occurs(i) == /\ i + Len(pat) - 1 <= Len(s)
                   /\ SubSeq(s, i, i + Len(pat) - 1) = pat
      hits == { i \in 1..(Len(s) + 1) : Occurs(i) }
  IN  IF hits = {} THEN 0
      ELSE CHOOSE i \in hits : \A j \in hits : i <= j

\* str::replacen(pat, to, count): the first `count` occurrences of pat,
\* wherever they are, are replaced by `to`.
RECURSIVE replacen(_, _, _, _)
replacen(s, pat, to, count) ==
  LET at == find(s, pat) IN
  IF count = 0 \/ at = 0 \/ pat = <<>> THEN s
  ELSE SubSeq(s, 1, at - 1) \o to
       \o replacen(SubSeq(s, at + Len(pat), Len(s)), pat, to, count - 1)

\* OSS::host
host(self, bucket, object, resources_str) ==
  IF starts_with(self.endpoint, Https)
  THEN HttpsScheme \o bucket \o Dot
       \o replacen(self.endpoint, HttpsScheme, <<>>, 1)
       \o Slash \o object \o QuestionMark \o resources_str
  ELSE HttpScheme \o bucket \o Dot
       \o replacen(self.endpoint, HttpScheme, <<>>, 1)
       \o Slash \o object \o QuestionMark \o resources_str

\* An instant of the clock, as chrono breaks it down: the names of the day
\* of the week and of the month, and the numbers of the calendar and clock.
Pad(n, width) ==
  [i \in 1..width |->
     Digits[((n \div (IF i = width THEN 1
                      ELSE IF i = width - 1 THEN 10
                      ELSE IF i = width - 2 THEN 100 ELSE 1000)) % 10) + 1]]

\* OSS::date: Utc::now() formatted with "%a, %d %b %Y %T GMT".
date(now) ==
  now.weekday \o CommaSpace \o Pad(now.day, 2) \o Space \o now.month \o Space
  \o Pad(now.year, 4) \o Space \o Pad(now.hour, 2) \o Colon
  \o Pad(now.minute, 2) \o Colon \o Pad(now.second, 2) \o Gmt

\* The verb of RequestType::Post, which async_object.rs:326 and :397 pass to
\* build_request; the enum of oss.rs has no such variant.
PostVerb == B("POST")

\* as_str with HEAD requests signed as GET.
as_str_head_as_get(req_type) ==
  CASE req_type = "Get" -> B("GET")
    [] req_type = "Put" -> B("PUT")
    [] req_type = "Delete" -> B("DELETE")
    [] req_type = "Head" -> B("GET")
    [] req_type = "Post" -> PostVerb

\* RequestType::as_str.
as_str(req_type) ==
  CASE req_type = "Get" -> B("GET")
    [] req_type = "Put" -> B("PUT")
    [] req_type = "Delete" -> B("DELETE")
    [] req_type = "Head" -> B("HEAD")
    [] req_type = "Post" -> PostVerb

\* errors.rs: From<InvalidHeaderValue> and From<InvalidHeaderName> for Error
ErrorHttp(e) == [kind |-> "Http", error |-> e]

Err(e) == [ok |-> FALSE, val |-> e]
Ok(v) == [ok |-> TRUE, val |-> v]

\* The locals of oss_sign when it has not been called.
NotSigned ==
  [ date |-> <<>>, content_type |-> <<>>, content_md5 |-> <<>>,
    oss_headers_str |-> <<>>, oss_resource_str |-> <<>>, sign_str |-> <<>>,
    authorization |-> <<>> ]

\* build_request that signs before it inserts the Date header.
build_request_signs_before_date(self, req_type, object_name, headers, resources, now) ==
  LET resources_str == IF resources.some
                       THEN get_resources_str(resources.val.map,
                                              resources.val.iter)
                       ELSE <<>>
      params_str == IF resources.some
                    THEN get_params_str(resources.val.map, resources.val.iter)
                    ELSE <<>>
      url == host(self, self.bucket, object_name, params_str)
      built == IF headers.some
               THEN to_headers(headers.val.map, headers.val.iter)
               ELSE Ok(<<>>)
      date_value == HeaderValueParse(date(now))
      sign == oss_sign(self, as_str(req_type), self.key_id, self.key_secret,
                       self.bucket, object_name, resources_str, built.val)
      dated == HeaderInsert(built.val, DATE, date_value.val)
      auth_value == HeaderValueParse(sign.authorization)
      early == [ url |-> url, resources_str |-> resources_str,
                 params_str |-> params_str, signed |-> FALSE,
                 signed_headers |-> <<>>, sign |-> NotSigned ]
  IN  IF ~built.ok
      THEN early @@ [ result |-> Err(ErrorHttp(built.val)) ]
      ELSE IF ~date_value.ok
      THEN early @@ [ result |-> Err(ErrorHttp(date_value.val)) ]
      ELSE LET frame == [ early EXCEPT !.signed = TRUE,
                                       !.signed_headers = built.val,
                                       !.sign = sign ]
           IN  IF ~auth_value.ok
               THEN frame @@ [ result |-> Err(ErrorHttp(auth_value.val)) ]
               ELSE frame @@ [ result |->
                     Ok(<<url, HeaderInsert(dated, AUTHORIZATION,
                                            auth_value.val)>>) ]

\* OSS::build_request: the values of its locals when it returns; `result`
\* is the value returned.  `now` is what the clock shows when date() reads
\* it; `signed` tells whether oss_sign was called, `signed_headers` is the
\* header set it was given and `sign` are its locals.
build_request(self, req_type, object_name, headers, resources, now) ==
  LET resources_str == IF resources.some
                       THEN get_resources_str(resources.val.map,
                                              resources.val.iter)
                       ELSE <<>>
      params_str == IF resources.some
                    THEN get_params_str(resources.val.map, resources.val.iter)
                    ELSE <<>>
      url == host(self, self.bucket, object_name, params_str)
      built == IF headers.some
               THEN to_headers(headers.val.map, headers.val.iter)
               ELSE Ok(<<>>)
      date_value == HeaderValueParse(date(now))
      dated == HeaderInsert(built.val, DATE, date_value.val)
      sign == oss_sign(self, as_str(req_type), self.key_id, self.key_secret,
                       self.bucket, object_name, resources_str, dated)
      auth_value == HeaderValueParse(sign.authorization)
      early == [ url |-> url, resources_str |-> resources_str,
                 params_str |-> params_str, signed |-> FALSE,
                 signed_headers |-> <<>>, sign |-> NotSigned ]
  IN  IF ~built.ok
      THEN early @@ [ result |-> Err(ErrorHttp(built.val)) ]
      ELSE IF ~date_value.ok
      THEN early @@ [ result |-> Err(ErrorHttp(date_value.val)) ]
      ELSE LET frame == [ early EXCEPT !.signed = TRUE,
                                       !.signed_headers = dated,
                                       !.sign = sign ]
           IN  IF ~auth_value.ok
               THEN frame @@ [ result |-> Err(ErrorHttp(auth_value.val)) ]
               ELSE frame @@ [ result |->
                     Ok(<<url, HeaderInsert(dated, AUTHORIZATION,
                                            auth_value.val)>>) ]

(***************************************************************************)
(* Building requests: calls of host on a client constructed on any of the  *)
(* endpoints, and calls of build_request.                                  *)
(***************************************************************************)
\* Endpoints with and without a scheme prefix; two of those without one
\* begin with the letters "https" or hold "http://" further on.
Endpoints == { B("https://e.cn"), B("http://e.cn"), B("e.cn"),
               B("https.cn"), B("e.cn/http://") }

\* What the clock shows when date() reads it.
Clock ==
  { [ weekday |-> B("Mon"), day |-> 1, month |-> B("Jan"), year |-> 2024,
      hour |-> 0, minute |-> 0, second |-> 0 ],
    [ weekday |-> B("Tue"), day |-> 12, month |-> B("Nov"), year |-> 2024,
      hour |-> 23, minute |-> 59, second |-> 7 ] }

\* The caller's headers: a name that is no token ("X y"), and a value with
\* a line feed, besides names and values that HeaderMap accepts.
CallerHeaderKeys == { B("Date"), B("Content-Type"), B("X-Oss-Meta-Foo"),
                      B("Authorization"), B("X y") }
CallerHeaderValues == { B("ab"), B("v") \o <<195, 169>>,
                        B("a") \o <<10>> \o B("b") }
CallerHeaderOrders == IterOrders(CallerHeaderKeys, MaxHeaders)
CallerHeaders ==
  { None } \cup
  UNION { { Some([map |-> m, iter |-> iter]) :
              m \in [Range(iter) -> CallerHeaderValues] } :
          iter \in CallerHeaderOrders }

CallerResources ==
  { None,
    Some([ map |-> (B("acl") :> None) @@ (B("max-keys") :> Some(B("5"))),
           iter |-> <<B("max-keys"), B("acl")>> ]) }

RequestTypes == { "Get", "Put", "Delete", "Head" }
\* The request types with the object names they are built for: the empty
\* name is what list_object passes.
RequestTargets ==
  { <<"Get", B("")>> } \cup { <<req_type, B("o")>> : req_type \in RequestTypes }
QueryStrings == { B(""), B("acl"), B("acl&max-keys=5") }

InitHost ==
  /\ \E endpoint \in Endpoints :
       client = [key_id |-> B("id"), key_secret |-> B("sk"),
                 endpoint |-> endpoint, bucket |-> B("b")]
  /\ op = "idle"
  /\ args = <<>>
  /\ ret = <<>>
  /\ locals = <<>>
  /\ earlier = NoCall
  /\ wire = <<>>

Host ==
  /\ op = "idle"
  /\ \E bucket \in ClientBuckets, object \in Objects,
        resources_str \in QueryStrings :
      /\ op' = "host"
      /\ args' = [bucket |-> bucket, object |-> object,
                  resources_str |-> resources_str]
      /\ ret' = host(client, bucket, object, resources_str)
      /\ UNCHANGED <<client, locals, earlier, wire>>

BuildRequest ==
  /\ op = "idle"
  /\ \E target \in RequestTargets, headers \in CallerHeaders,
        resources \in CallerResources, now \in Clock :
      LET req_type == target[1]
          object_name == target[2]
          frame == build_request(client, req_type, object_name, headers,
                                 resources, now)
      IN  /\ op' = "build_request"
          /\ args' = [req_type |-> req_type, object_name |-> object_name,
                      headers |-> headers, resources |-> resources,
                      now |-> now]
          /\ ret' = frame.result
          /\ locals' = frame
          /\ UNCHANGED <<client, earlier, wire>>

NextHost == SetBucket \/ Host \/ Return

SpecHost == InitHost /\ [][NextHost]_vars

NextBuild == SetBucket \/ BuildRequest \/ Return

SpecBuild == Init /\ [][NextBuild]_vars

(***************************************************************************)
(* What the claims about host and build_request speak of.                  *)
(***************************************************************************)
\* The endpoint carries this scheme prefix.
Carries(endpoint, scheme) == starts_with(endpoint, scheme)
WithoutPrefix(endpoint, scheme) ==
  SubSeq(endpoint, Len(scheme) + 1, Len(endpoint))

\* The URL the documentation describes for the client's endpoint.
DocumentedUrl(endpoint, bucket, object, query) ==
  LET Url(scheme, rest) ==
        scheme \o bucket \o Dot \o rest \o Slash \o object \o QuestionMark
        \o query
  IN  IF Carries(endpoint, HttpsScheme)
      THEN Url(HttpsScheme, WithoutPrefix(endpoint, HttpsScheme))
      ELSE IF Carries(endpoint, HttpScheme)
      THEN Url(HttpScheme, WithoutPrefix(endpoint, HttpScheme))
      ELSE Url(HttpScheme, endpoint)

\* C11: host(bucket, object, query) returns scheme "://" bucket "."
\* endpoint-without-its-scheme-prefix "/" object "?" query, with scheme
\* https iff the endpoint carries the prefix "https://", and http when it
\* carries "http://" or no scheme prefix at all.
C11_HostUrl ==
  op = "host" =>
    ret = DocumentedUrl(client.endpoint, args.bucket, args.object,
                        args.resources_str)

\* host is the documented URL on every endpoint that carries a scheme
\* prefix, and on every endpoint without one that neither begins with
\* "https" nor holds "http://".
C11_HostUrlOnPlainEndpoints ==
  (/\ op = "host"
   /\ \/ Carries(client.endpoint, HttpsScheme)
      \/ Carries(client.endpoint, HttpScheme)
      \/ /\ ~starts_with(client.endpoint, Https)
         /\ ~StrContains(client.endpoint, HttpScheme))
  => ret = DocumentedUrl(client.endpoint, args.bucket, args.object,
                         args.resources_str)

\* host has returned for an endpoint without scheme prefix that begins with
\* the letters "https".
C11_SchemelessHttpsEndpoint ==
  /\ op = "host"
  /\ client.endpoint = B("https.cn")
  /\ ret = B("https://") \o args.bucket \o B(".https.cn/") \o args.object
           \o B("?") \o args.resources_str

\* The entries of a header set under a name, and the set without them.
EntriesNamed(hs, name) ==
  SelectSeq(hs, LAMBDA e : e[1] = to_ascii_lowercase(name))
HeadersWithout(hs, name) ==
  SelectSeq(hs, LAMBDA e : e[1] # to_ascii_lowercase(name))

\* The strings the two encoders give for build_request's `resources`.
SignableOf(resources) ==
  IF resources.some
  THEN get_resources_str(resources.val.map, resources.val.iter) ELSE <<>>
QueryOf(resources) ==
  IF resources.some
  THEN get_params_str(resources.val.map, resources.val.iter) ELSE <<>>

\* The caller's headers as (name, value) pairs.
CallerEntries(headers) ==
  IF headers.some
  THEN { <<k, headers.val.map[k]>> : k \in DOMAIN headers.val.map } ELSE {}

NotRepresentable(e) ==
  ~HeaderNameFromBytes(e[1]).ok \/ ~HeaderValueParse(e[2]).ok

\* C17: when a caller header's name or value cannot be represented,
\* build_request returns Err(Error::Http(..)) from the construction of the
\* headers, before oss_sign is called: there is no signature and no
\* (url, headers) pair, and nothing has been sent.
C17_RefusedBeforeSigning ==
  (/\ op = "build_request"
   /\ \E e \in CallerEntries(args.headers) : NotRepresentable(e))
  => /\ ~ret.ok
     /\ ret.val.kind = "Http"
     /\ ret.val.error \in { "HttpInvalidHeaderName", "HttpInvalidHeaderValue" }
     /\ ~locals.signed
     /\ locals.sign = NotSigned
     /\ wire = <<>>

\* build_request has returned for headers whose iteration yields a header
\* that is accepted and then one whose value holds a line feed.
C17_LineFeedInSecondValue ==
  /\ op = "build_request"
  /\ args.headers.some
  /\ Len(args.headers.val.iter) = 2
  /\ ~NotRepresentable(<<args.headers.val.iter[1],
                         args.headers.val.map[args.headers.val.iter[1]]>>)
  /\ HeaderNameFromBytes(args.headers.val.iter[2]).ok
  /\ 10 \in Range(args.headers.val.map[args.headers.val.iter[2]])
  /\ ~ret.ok

\* C18: when build_request returns Ok, the values of Date, Content-Type,
\* Content-MD5 and of the x-oss- headers in the signing string are the
\* values of the header set it returns; no value that the header set
\* carries stands in the signing string as the empty string.
C18_SignedValuesAreSentValues ==
  (op = "build_request" /\ ret.ok) =>
    LET hs == ret.val[2] IN
    /\ locals.sign.date = HeaderValueOf(hs, DATE)
    /\ locals.sign.content_type = HeaderValueOf(hs, CONTENT_TYPE)
    /\ locals.sign.content_md5 =
         (IF HeaderGet(hs, ContentMd5).some
          THEN encode(HeaderValueOf(hs, ContentMd5)) ELSE <<>>)
    /\ locals.sign.oss_headers_str = VendorLines(hs, VendorNames(hs))

\* The part of C18 the code keeps: the same, when the Content-Type,
\* Content-MD5 and x-oss- values of the returned header set are visible
\* ASCII.
C18_VisibleValuesAreSigned ==
  (/\ op = "build_request"
   /\ ret.ok
   /\ \A i \in 1..Len(ret.val[2]) : AllVisible(ret.val[2][i][2]))
  => C18_SignedValuesAreSentValues

(***************************************************************************)
(* src/src/oss.rs: ObjectMeta::from_header_map, with httpdate's            *)
(* parse_http_date and str::parse::<usize> as it uses them.                *)
(***************************************************************************)
LastModified == B("Last-Modified")
ContentLength == B("Content-Length")
ContentMd5OfResponse == B("Content-Md5")
CanNotFind == B("can not find ")
InHeadResponse == B(" in head response, response header: ")
HeaderEntry == B("header entry ")
ContainsInvalidAscii == B(" contains invalid ASCII code")
CannotParseToSystemTime == B("cannot parse to system time: ")
CannotParseToNumber == B("cannot parse to number: ")
NoOrInvalidDate == B("string contains no or an invalid date")
EmptyString == B("cannot parse integer from empty string")
InvalidDigit == B("invalid digit found in string")
Weekdays == { B("Mon"), B("Tue"), B("Wed"), B("Thu"), B("Fri"), B("Sat"),
              B("Sun") }
Months == { B("Jan"), B("Feb"), B("Mar"), B("Apr"), B("May"), B("Jun"),
            B("Jul"), B("Aug"), B("Sep"), B("Oct"), B("Nov"), B("Dec") }
Quote == B("\"")
OpenBrace == B("{")
CloseBrace == B("}")
ColonSpace == B(": ")

\* Error::Object(ObjectError::<variant> { msg })
ErrorObject(variant, msg) == [kind |-> "Object", error |-> variant, msg |-> msg]

IsDigit(b) == b >= 48 /\ b <= 57
RECURSIVE Decimal(_)
Decimal(digits) ==
  IF digits = <<>> THEN 0
  ELSE 10 * Decimal(SubSeq(digits, 1, Len(digits) - 1))
       + (digits[Len(digits)] - 48)

\* str::parse::<usize>: an optional '+' and decimal digits.  (The strings
\* drawn are short, so the value fits the target type.)
ParseUsize(s) ==
  LET digits == IF s # <<>> /\ s[1] = 43 THEN Tail(s) ELSE s IN
  IF s = <<>> THEN Err(EmptyString)
  ELSE IF digits = <<>> \/ \E i \in 1..Len(digits) : ~IsDigit(digits[i])
  THEN Err(InvalidDigit)
  ELSE Ok(Decimal(digits))

\* httpdate::parse_http_date on the IMF-fixdate form
\* "Sun, 06 Nov 1994 08:49:37 GMT": the fields and their ranges.  (The
\* RFC 850 and asctime forms and the agreement of the day of the week with
\* the date are not modelled; no date drawn depends on them.)
parse_http_date(s) ==
  LET Num(a, b) == Decimal(SubSeq(s, a, b))
      AllDigits(a, b) == \A i \in a..b : IsDigit(s[i])
  IN  IF /\ Len(s) = 29
         /\ SubSeq(s, 1, 3) \in Weekdays
         /\ SubSeq(s, 4, 5) = CommaSpace
         /\ AllDigits(6, 7) /\ s[8] = 32
         /\ SubSeq(s, 9, 11) \in Months
         /\ s[12] = 32 /\ AllDigits(13, 16) /\ s[17] = 32
         /\ AllDigits(18, 19) /\ s[20] = 58
         /\ AllDigits(21, 22) /\ s[23] = 58
         /\ AllDigits(24, 25) /\ SubSeq(s, 26, 29) = Gmt
         /\ Num(6, 7) >= 1 /\ Num(6, 7) <= 31
         /\ Num(13, 16) >= 1970
         /\ Num(18, 19) <= 23 /\ Num(21, 22) <= 59 /\ Num(24, 25) <= 59
      THEN Ok([ weekday |-> SubSeq(s, 1, 3), day |-> Num(6, 7),
                month |-> SubSeq(s, 9, 11), year |-> Num(13, 16),
                hour |-> Num(18, 19), minute |-> Num(21, 22),
                second |-> Num(24, 25) ])
      ELSE Err(NoOrInvalidDate)

\* The {:?} rendering of a HeaderMap: {"name": "value", ...} (the escapes
\* of bytes that are not visible ASCII are left out).
RECURSIVE DebugEntries(_)
DebugEntries(header) ==
  IF header = <<>> THEN <<>>
  ELSE Quote \o header[1][1] \o Quote \o ColonSpace
       \o Quote \o header[1][2] \o Quote
       \o (IF Len(header) > 1 THEN CommaSpace ELSE <<>>)
       \o DebugEntries(Tail(header))
DebugHeaderMap(header) == OpenBrace \o DebugEntries(header) \o CloseBrace

\* The closure `getter` of from_header_map.
getter(header, key) ==
  LET value == HeaderGet(header, key) IN
  IF ~value.some
  THEN Err(ErrorObject("HeadError",
             CanNotFind \o key \o InHeadResponse \o DebugHeaderMap(header)))
  ELSE IF ~to_str(value.val).ok
  THEN Err(ErrorObject("HeadError",
             HeaderEntry \o key \o ContainsInvalidAscii))
  ELSE Ok(value.val)

\* ObjectMeta::from_header_map
from_header_map(header) ==
  LET last_modified_str == getter(header, LastModified)
      last_modified == parse_http_date(last_modified_str.val)
      size_str == getter(header, ContentLength)
      size == ParseUsize(size_str.val)
      md5 == getter(header, ContentMd5OfResponse)
  IN  IF ~last_modified_str.ok THEN last_modified_str
      ELSE IF ~last_modified.ok
      THEN Err(ErrorObject("HeadError",
                 CannotParseToSystemTime \o last_modified.val))
      ELSE IF ~size_str.ok THEN size_str
      ELSE IF ~size.ok
      THEN Err(ErrorObject("HeadError", CannotParseToNumber \o size.val))
      ELSE IF ~md5.ok THEN md5
      ELSE Ok([ last_modified |-> last_modified.val, size |-> size.val,
                md5 |-> md5.val ])

(***************************************************************************)
(* XML bodies.  A well-formed document is its root element; an element has *)
(* a name, a text (trimmed) and child elements.  quick_xml's Reader turns  *)
(* it into the events Start, Text, End of its elements in document order,  *)
(* followed by Eof.                                                        *)
(***************************************************************************)
\* Below, CHOOSE y \in { F(v) : v \in {x} } : TRUE is F(x) with x evaluated
\* once, as `let v = x;` followed by F(v).

\* Error::Qxml
ErrorQxml(e) == [kind |-> "Qxml", error |-> e]
\* A panic of the thread or task that runs the operation: no value is
\* returned.
Panic(e) == [ok |-> FALSE, val |-> [kind |-> "Panic", error |-> e]]

Elt(name, text) == [name |-> name, text |-> text, children |-> <<>>]
Node(name, children) == [name |-> name, text |-> <<>>, children |-> children]

Event(type, name, text) == [type |-> type, name |-> name, text |-> text]

RECURSIVE EventsOf(_)
RECURSIVE EventsOfAll(_)
EventsOf(element) ==
  << Event("Start", element.name, <<>>) >>
  \o (IF element.text # <<>> THEN << Event("Text", "", element.text) >>
      ELSE <<>>)
  \o EventsOfAll(element.children)
  \o << Event("End", element.name, <<>>) >>
EventsOfAll(elements) ==
  IF elements = <<>> THEN <<>>
  ELSE EventsOf(elements[1]) \o EventsOfAll(Tail(elements))

\* Reader::from_str(xml).read_event() until Eof
ReaderEvents(root) == EventsOf(root) \o << Event("Eof", "", <<>>) >>

\* The events of a document whose last end tag has another name than its
\* start tag: read_event returns Err(EndEventMismatch) there.
MismatchedEvents(root) ==
  SubSeq(EventsOf(root), 1, Len(EventsOf(root)) - 1)
  \o << Event("Err", "EndEventMismatch", <<>>) >>

\* The events of a document that ends before the end tags that close its
\* last elements: read_event returns Eof there.
RECURSIVE WithoutTrailingEnds(_)
WithoutTrailingEnds(events) ==
  IF events # <<>> /\ events[Len(events)].type = "End"
  THEN WithoutTrailingEnds(SubSeq(events, 1, Len(events) - 1))
  ELSE events
TruncatedEvents(root) ==
  WithoutTrailingEnds(EventsOf(root)) \o << Event("Eof", "", <<>>) >>

\* The index of the End event that closes the element opened just before
\* index i, 0 if there is none.
RECURSIVE MatchingEnd(_, _, _, _)
MatchingEnd(events, i, name, depth) ==
  IF i > Len(events) THEN 0
  ELSE IF events[i].type = "End" /\ events[i].name = name
  THEN (IF depth = 0 THEN i ELSE MatchingEnd(events, i + 1, name, depth - 1))
  ELSE IF events[i].type = "Start" /\ events[i].name = name
  THEN MatchingEnd(events, i + 1, name, depth + 1)
  ELSE MatchingEnd(events, i + 1, name, depth)

\* The source text of events[a..b].
RECURSIVE SourceText(_, _, _)
SourceText(events, a, b) ==
  IF a > b THEN <<>>
  ELSE (CASE events[a].type = "Start" -> B("<") \o B(events[a].name) \o B(">")
          [] events[a].type = "End" -> B("</") \o B(events[a].name) \o B(">")
          [] OTHER -> events[a].text)
       \o SourceText(events, a + 1, b)

\* Reader::read_text(end) called after the Start event at index i - 1: the
\* text up to the matching End event, and the index after that event; an
\* error if the input ends before that event.
read_text(events, i, name) ==
  LET end == MatchingEnd(events, i, name, 0)
  IN  [ok |-> end # 0, text |-> SourceText(events, i, end - 1),
       next |-> end + 1]

(***************************************************************************)
(* src/src/async_service.rs, src/src/service.rs: the loop of list_bucket   *)
(* over the events of the response body.                                   *)
(***************************************************************************)
TrueText == B("true")
FalseText == B("false")

\* The element names whose text the loop stores, and the local it stores
\* each in: those of the listing and those of a bucket.
ListingFields ==
  ("Prefix" :> "prefix") @@ ("Marker" :> "marker")
  @@ ("MaxKeys" :> "max_keys") @@ ("NextMarker" :> "next_marker")
  @@ ("ID" :> "id") @@ ("DisplayName" :> "display_name")
BucketFields ==
  ("Name" :> "name") @@ ("CreationDate" :> "create_date")
  @@ ("ExtranetEndpoint" :> "extranet_endpoint")
  @@ ("IntranetEndpoint" :> "intranet_endpoint")
  @@ ("Location" :> "location") @@ ("StorageClass" :> "storage_class")

\* The locals of list_bucket before the loop.
ListBucketLocals ==
  [ prefix |-> <<>>, marker |-> <<>>, max_keys |-> <<>>,
    is_truncated |-> FALSE, next_marker |-> <<>>, id |-> <<>>,
    display_name |-> <<>>, name |-> <<>>, location |-> <<>>,
    create_date |-> <<>>, extranet_endpoint |-> <<>>,
    intranet_endpoint |-> <<>>, storage_class |-> <<>>, result |-> <<>> ]

\* Bucket::new
NewBucket(f) ==
  [ name |-> f.name, create_date |-> f.create_date, location |-> f.location,
    extranet_endpoint |-> f.extranet_endpoint,
    intranet_endpoint |-> f.intranet_endpoint,
    storage_class |-> f.storage_class ]

\* The arm of Start("Bucket") with the locals left as they are.
StartBucket_keeping_the_fields(f) == f

\* The arm of Start("Bucket"): the six locals of a bucket are emptied.
StartBucket(f) ==
  [f EXCEPT !.name = <<>>, !.location = <<>>, !.create_date = <<>>,
            !.extranet_endpoint = <<>>, !.intranet_endpoint = <<>>,
            !.storage_class = <<>>]

\* The loop from the event at index i on, with the locals f; `fields` are
\* the element names whose text is stored and `truncation` tells whether
\* IsTruncated is read (async_service.rs) or not (service.rs).  The value
\* is Ok with the locals at Eof, the error of read_text, or the panic on
\* an error of read_event.
RECURSIVE ListBucketLoop(_, _, _, _, _)
ListBucketLoop(events, i, f, fields, truncation) ==
  LET e == events[i]
      Go(j, g) ==
        CHOOSE y \in { ListBucketLoop(events, v[1], v[2], fields, truncation) :
                         v \in { <<j, g>> } } : TRUE
      Store(r) ==
        IF e.name = "IsTruncated"
        THEN [f EXCEPT !.is_truncated = (r.text = TrueText)]
        ELSE [f EXCEPT ![fields[e.name]] = r.text]
  IN  IF e.type = "Eof" THEN Ok(f)
      ELSE IF e.type = "Err" THEN Panic("Error at position")
      ELSE IF /\ e.type = "Start"
              /\ \/ e.name \in DOMAIN fields
                 \/ e.name = "IsTruncated" /\ truncation
      THEN CHOOSE y \in { IF ~r.ok THEN Err(ErrorQxml("UnexpectedEof"))
                          ELSE ListBucketLoop(events, r.next, Store(r),
                                              fields, truncation) :
                            r \in { read_text(events, i + 1, e.name) } } : TRUE
      ELSE IF e.type = "Start" /\ e.name = "Bucket"
      THEN Go(i + 1, StartBucket(f))
      ELSE IF e.type = "End" /\ e.name = "Bucket"
      THEN Go(i + 1, [f EXCEPT !.result = Append(f.result, NewBucket(f))])
      ELSE Go(i + 1, f)

\* ListBuckets::new at Eof (async_service.rs), and the value the loop of
\* service.rs leaves.
ListBucketsOf(events) ==
  CHOOSE y \in
    { IF ~r.ok THEN r
      ELSE Ok([ prefix |-> r.val.prefix, marker |-> r.val.marker,
                max_keys |-> r.val.max_keys,
                is_truncated |-> r.val.is_truncated,
                next_marker |-> r.val.next_marker, id |-> r.val.id,
                display_name |-> r.val.display_name,
                buckets |-> r.val.result ]) :
      r \in { ListBucketLoop(v, 1, ListBucketLocals,
                             ListingFields @@ BucketFields, TRUE) :
              v \in { events } } } : TRUE
BucketsOf(events) ==
  CHOOSE y \in
    { IF ~r.ok THEN r ELSE Ok(r.val.result) :
      r \in { ListBucketLoop(v, 1, ListBucketLocals, BucketFields, FALSE) :
              v \in { events } } } : TRUE

(***************************************************************************)
(* src/src/object.rs: the records a listing of objects is decoded into by  *)
(* quick_xml::de::from_str with the Deserialize impls serde derives: a     *)
(* field is the child element of its PascalCase name; a field without      *)
(* #[serde(default)] must be there, and once.                              *)
(***************************************************************************)
Named(children, names) == SelectSeq(children, LAMBDA c : c.name \in names)

\* A String field without default.
StringField(children, names) ==
  LET hits == Named(children, names) IN
  IF hits = <<>> THEN Err(ErrorQxml("missing field"))
  ELSE IF Len(hits) > 1 THEN Err(ErrorQxml("duplicate field"))
  ELSE Ok(hits[1].text)

\* A bool field without default.
BoolField(children, names) ==
  LET field == StringField(children, names) IN
  IF ~field.ok THEN field
  ELSE IF field.val = TrueText THEN Ok(TRUE)
  ELSE IF field.val = FalseText THEN Ok(FALSE)
  ELSE Err(ErrorQxml("invalid type"))

\* A usize field without default.
UsizeField(children, names) ==
  LET field == StringField(children, names)
      number == ParseUsize(field.val)
  IN  IF ~field.ok THEN field
      ELSE IF ~number.ok THEN Err(ErrorQxml("invalid digit")) ELSE number

\* The first error among the results, or the records of them all.
Collect(results) ==
  IF \E i \in 1..Len(results) : ~results[i].ok
  THEN results[CHOOSE i \in 1..Len(results) :
                 ~results[i].ok /\ \A j \in 1..(i - 1) : results[j].ok]
  ELSE Ok([i \in 1..Len(results) |-> results[i].val])

\* struct Owner (object.rs:88-94)
DeOwner(element) ==
  Collect(<< StringField(element.children, {"Id", "ID"}),
             StringField(element.children, {"DisplayName"}) >>)

\* struct Object (object.rs:97-107)
DeObject(element) ==
  LET owners == Named(element.children, {"Owner"})
  IN  Collect(<< StringField(element.children, {"Key"}),
                 StringField(element.children, {"LastModified"}),
                 UsizeField(element.children, {"Size"}),
                 StringField(element.children, {"ETag"}),
                 StringField(element.children, {"Type"}),
                 StringField(element.children, {"StorageClass"}),
                 IF owners = <<>> THEN Err(ErrorQxml("missing field"))
                 ELSE IF Len(owners) > 1 THEN Err(ErrorQxml("duplicate field"))
                 ELSE DeOwner(owners[1]) >>)

\* struct CommonPrefix (object.rs:11-15)
DeCommonPrefix(element) ==
  Collect(<< StringField(element.children, {"Prefix"}) >>)

\* A Vec field with #[serde(default)]: the elements of the name, none if
\* there is none.
ContentsField(children) ==
  LET hits == Named(children, {"Contents"})
  IN  Collect([i \in 1..Len(hits) |-> DeObject(hits[i])])
CommonPrefixesField(children) ==
  LET hits == Named(children, {"CommonPrefixes"})
  IN  Collect([i \in 1..Len(hits) |-> DeCommonPrefix(hits[i])])

\* A response body: a well-formed XML document, or bytes that are none.
XmlBody(root) == [xml |-> TRUE, broken |-> "", root |-> root, bytes |-> <<>>]
RawBody(bytes) == [xml |-> FALSE, broken |-> "", root |-> Elt("", <<>>), bytes |-> bytes]
\* A body that is a document up to its last end tag, which has another
\* name ("mismatch"), or up to the end tags of its last elements, which are
\* not there ("truncated").
MalformedBody(root, broken) == [xml |-> FALSE, broken |-> broken, root |-> root, bytes |-> <<>>]

\* The events the Reader reads from a body.
BodyEvents(body) ==
  IF body.xml THEN ReaderEvents(body.root)
  ELSE IF body.broken = "mismatch" THEN MismatchedEvents(body.root)
  ELSE IF body.broken = "truncated" THEN TruncatedEvents(body.root)
  ELSE (IF body.bytes = <<>> THEN <<>>
        ELSE << Event("Text", "", body.bytes) >>)
       \o << Event("Eof", "", <<>>) >>

\* The record made of the String fields `names` of the root element.
StringFields(body, names) ==
  IF ~body.xml THEN Err(ErrorQxml("syntax"))
  ELSE Collect([i \in 1..Len(names) |->
                  StringField(body.root.children, {names[i]})])

\* quick_xml::de::from_str::<ListObjects> (struct ListObjects,
\* object.rs:17-31)
from_str_ListObjects(body) ==
  LET children == body.root.children
      fields == Collect(<< StringField(children, {"Name"}),
                           StringField(children, {"Delimiter"}),
                           StringField(children, {"Prefix"}),
                           StringField(children, {"Marker"}),
                           StringField(children, {"MaxKeys"}),
                           BoolField(children, {"IsTruncated"}),
                           ContentsField(children),
                           CommonPrefixesField(children) >>)
  IN  IF ~body.xml THEN Err(ErrorQxml("syntax"))
      ELSE IF ~fields.ok THEN fields
      ELSE Ok([ name |-> fields.val[1], delimiter |-> fields.val[2],
                prefix |-> fields.val[3], marker |-> fields.val[4],
                max_keys |-> fields.val[5], is_truncated |-> fields.val[6],
                contents |-> fields.val[7],
                common_prefixes |-> fields.val[8] ])

\* quick_xml::de::from_str::<InitiateMultipartUploadResult> and
\* ::<CompleteMultipartUploadResult> (multi_part.rs)
from_str_InitiateMultipartUploadResult(body) ==
  StringFields(body, <<"Bucket", "Key", "UploadId">>)
from_str_CompleteMultipartUploadResult(body) ==
  StringFields(body, <<"Location", "Bucket", "Key", "ETag">>)

\* String::from_utf8: the bytes 0xF8 and above stand in no UTF-8 text (no
\* other text that is not UTF-8 is drawn).
from_utf8(body) ==
  IF ~body.xml /\ \E i \in 1..Len(body.bytes) : body.bytes[i] >= 248
  THEN Err([kind |-> "String", error |-> "FromUtf8Error"])
  ELSE Ok(body)

\* The loop of get_object_acl: Ok with the text of the last Grant element,
\* the error of read_text, or the panic on an error of read_event.
RECURSIVE GrantLoop(_, _, _)
GrantLoop(events, i, grant) ==
  IF events[i].type = "Eof" THEN Ok(grant)
  ELSE IF events[i].type = "Err" THEN Panic("Error at position")
  ELSE IF events[i].type = "Start" /\ events[i].name = "Grant"
  THEN CHOOSE y \in { IF ~r.ok THEN Err(ErrorQxml("UnexpectedEof"))
                      ELSE GrantLoop(events, r.next, r.text) :
                        r \in { read_text(events, i + 1, "Grant") } } : TRUE
  ELSE GrantLoop(events, i + 1, grant)

(***************************************************************************)
(* src/src/object.rs, src/src/async_object.rs: the operations on objects.  *)
(* Each builds its request with build_request, sends it once and turns the *)
(* response into its result.  A row tells what one operation passes to     *)
(* build_request (the caller's headers and resources, or fixed ones), the  *)
(* method it sends, whether it sends a body and tests the status, the      *)
(* ObjectError variant and text it answers a non-2xx status with, and what *)
(* it makes of a 2xx response.                                             *)
(***************************************************************************)
\* get_object_acl: params.insert("acl", None)
AclResources == Some([map |-> (B("acl") :> None), iter |-> <<B("acl")>>])
\* delete_object: Some(HashMap::<String, String>::new())
EmptyHeaders == Some([map |-> <<>>, iter |-> <<>>])

\* impl ObjectAPI for OSS
BlockingObjectOps ==
  {
    [ api |-> "blocking", name |-> "list_object", req_type |-> "Get", method |-> "GET",
      caller_headers |-> TRUE, caller_resources |-> TRUE,
      headers |-> None, resources |-> None, body |-> FALSE,
      checks_status |-> FALSE, variant |-> "",
      text |-> B(""),
      success |-> "ListObjects" ],
    [ api |-> "blocking", name |-> "get_object", req_type |-> "Get", method |-> "GET",
      caller_headers |-> TRUE, caller_resources |-> TRUE,
      headers |-> None, resources |-> None, body |-> FALSE,
      checks_status |-> TRUE, variant |-> "GetError",
      text |-> B("can not get object, status code: "),
      success |-> "body" ],
    [ api |-> "blocking", name |-> "get_object_acl", req_type |-> "Get", method |-> "GET",
      caller_headers |-> FALSE, caller_resources |-> FALSE,
      headers |-> None, resources |-> AclResources, body |-> FALSE,
      checks_status |-> TRUE, variant |-> "GetError",
      text |-> B("can not get object, status code: "),
      success |-> "grant" ],
    [ api |-> "blocking", name |-> "put_object_from_file", req_type |-> "Put", method |-> "PUT",
      caller_headers |-> TRUE, caller_resources |-> TRUE,
      headers |-> None, resources |-> None, body |-> TRUE,
      checks_status |-> TRUE, variant |-> "PutError",
      text |-> B("can not put object, status code: "),
      success |-> "unit" ],
    [ api |-> "blocking", name |-> "put_object_from_buffer", req_type |-> "Put", method |-> "PUT",
      caller_headers |-> TRUE, caller_resources |-> TRUE,
      headers |-> None, resources |-> None, body |-> TRUE,
      checks_status |-> TRUE, variant |-> "PutError",
      text |-> B("can not put object, status code: "),
      success |-> "unit" ],
    [ api |-> "blocking", name |-> "copy_object_from_object", req_type |-> "Put", method |-> "PUT",
      caller_headers |-> TRUE, caller_resources |-> TRUE,
      headers |-> None, resources |-> None, body |-> FALSE,
      checks_status |-> TRUE, variant |-> "CopyError",
      text |-> B("can not copy object, status code: "),
      success |-> "unit" ],
    [ api |-> "blocking", name |-> "delete_object", req_type |-> "Delete", method |-> "DELETE",
      caller_headers |-> FALSE, caller_resources |-> FALSE,
      headers |-> EmptyHeaders, resources |-> None, body |-> FALSE,
      checks_status |-> TRUE, variant |-> "DeleteError",
      text |-> B("can not delete object, status code: "),
      success |-> "unit" ]
  }

\* impl AsyncObjectAPI for OSS
AsyncObjectOps ==
  {
    [ api |-> "async", name |-> "list_object", req_type |-> "Get", method |-> "GET",
      caller_headers |-> TRUE, caller_resources |-> TRUE,
      headers |-> None, resources |-> None, body |-> FALSE,
      checks_status |-> FALSE, variant |-> "",
      text |-> B(""),
      success |-> "ListObjects" ],
    [ api |-> "async", name |-> "get_object", req_type |-> "Get", method |-> "GET",
      caller_headers |-> TRUE, caller_resources |-> TRUE,
      headers |-> None, resources |-> None, body |-> FALSE,
      checks_status |-> TRUE, variant |-> "GetError",
      text |-> B("can not get object, status code: "),
      success |-> "body" ],
    [ api |-> "async", name |-> "put_object", req_type |-> "Put", method |-> "PUT",
      caller_headers |-> TRUE, caller_resources |-> TRUE,
      headers |-> None, resources |-> None, body |-> TRUE,
      checks_status |-> TRUE, variant |-> "DeleteError",
      text |-> B("can not put object, status code, status code: "),
      success |-> "unit" ],
    [ api |-> "async", name |-> "copy_object_from_object", req_type |-> "Put", method |-> "PUT",
      caller_headers |-> TRUE, caller_resources |-> TRUE,
      headers |-> None, resources |-> None, body |-> FALSE,
      checks_status |-> TRUE, variant |-> "CopyError",
      text |-> B("can not copy object, status code: "),
      success |-> "unit" ],
    [ api |-> "async", name |-> "delete_object", req_type |-> "Delete", method |-> "DELETE",
      caller_headers |-> FALSE, caller_resources |-> FALSE,
      headers |-> EmptyHeaders, resources |-> None, body |-> FALSE,
      checks_status |-> TRUE, variant |-> "DeleteError",
      text |-> B("can not delete object, status code: "),
      success |-> "unit" ],
    [ api |-> "async", name |-> "head_object", req_type |-> "Head", method |-> "HEAD",
      caller_headers |-> FALSE, caller_resources |-> FALSE,
      headers |-> None, resources |-> None, body |-> FALSE,
      checks_status |-> TRUE, variant |-> "DeleteError",
      text |-> B("can not head object, status code: "),
      success |-> "ObjectMeta" ],
    [ api |-> "async", name |-> "init_multi", req_type |-> "Post", method |-> "POST",
      caller_headers |-> TRUE, caller_resources |-> TRUE,
      headers |-> None, resources |-> None, body |-> FALSE,
      checks_status |-> TRUE, variant |-> "PostError",
      text |-> B("init multi failed, status code, status code: "),
      success |-> "InitiateMultipartUploadResult" ],
    [ api |-> "async", name |-> "upload_part", req_type |-> "Put", method |-> "PUT",
      caller_headers |-> TRUE, caller_resources |-> TRUE,
      headers |-> None, resources |-> None, body |-> TRUE,
      checks_status |-> TRUE, variant |-> "PutError",
      text |-> B("can not put object, status code, status code: "),
      success |-> "ETag" ],
    [ api |-> "async", name |-> "complete_multi", req_type |-> "Post", method |-> "POST",
      caller_headers |-> TRUE, caller_resources |-> TRUE,
      headers |-> None, resources |-> None, body |-> TRUE,
      checks_status |-> TRUE, variant |-> "PostError",
      text |-> B("complete multi failed, status code, status code: "),
      success |-> "CompleteMultipartUploadResult" ],
    [ api |-> "async", name |-> "abort_multi", req_type |-> "Delete", method |-> "DELETE",
      caller_headers |-> TRUE, caller_resources |-> TRUE,
      headers |-> None, resources |-> None, body |-> FALSE,
      checks_status |-> TRUE, variant |-> "DeleteError",
      text |-> B("abort multi failed, status code, status code: "),
      success |-> "unit" ]
  }

\* The operations on objects, and the variants of list_bucket
\* (service.rs, async_service.rs).
ObjectOps == BlockingObjectOps \cup AsyncObjectOps
ServiceApis == { "blocking", "async" }

\* The part of list_bucket before the request is sent: the values of its
\* locals, in the shape of those of build_request.
list_bucket_request(self, resources, now) ==
  LET resources_str == IF resources.some
                       THEN get_resources_str(resources.val.map,
                                              resources.val.iter)
                       ELSE <<>>
      url == self.endpoint
      date_value == HeaderValueParse(date(now))
      dated == HeaderInsert(<<>>, DATE, date_value.val)
      sign == oss_sign(self, B("GET"), self.key_id, self.key_secret, <<>>,
                       <<>>, resources_str, dated)
      auth_value == HeaderValueParse(sign.authorization)
      early == [ url |-> url, resources_str |-> resources_str,
                 params_str |-> <<>>, signed |-> FALSE,
                 signed_headers |-> <<>>, sign |-> NotSigned ]
  IN  IF ~date_value.ok
      THEN early @@ [ result |-> Err(ErrorHttp(date_value.val)) ]
      ELSE LET frame == [ early EXCEPT !.signed = TRUE,
                                       !.signed_headers = dated,
                                       !.sign = sign ]
           IN  IF ~auth_value.ok
               THEN frame @@ [ result |-> Err(ErrorHttp(auth_value.val)) ]
               ELSE frame @@ [ result |->
                     Ok(<<url, HeaderInsert(dated, AUTHORIZATION,
                                            auth_value.val)>>) ]

(***************************************************************************)
(* The transport (reqwest): a request is answered by a transport error or  *)
(* by a response with a status, headers and a body; reading the body of a  *)
(* response can fail as well.                                              *)
(***************************************************************************)
Statuses == { 200, 204, 304, 404, 500 }
ReasonPhrase ==
  (200 :> B("OK")) @@ (204 :> B("No Content")) @@ (304 :> B("Not Modified"))
  @@ (404 :> B("Not Found")) @@ (500 :> B("Internal Server Error"))

\* StatusCode::is_success for any status but 204.
is_success_but_no_content(status) == status >= 200 /\ status < 300 /\ status # 204

\* StatusCode::is_success
is_success(status) == status >= 200 /\ status < 300

\* Display for StatusCode: the code and its canonical reason phrase.
StatusDisplay(status) == Pad(status, 3) \o Space \o ReasonPhrase[status]

\* Error::Reqwest
ErrorReqwest(e) == [kind |-> "Reqwest", error |-> e]
\* Error::Io
ErrorIo(e) == [kind |-> "Io", error |-> e]

\* The headers and bodies of the responses the model draws.
ObjectHeaders ==
  << <<B("last-modified"), B("Mon, 01 Jan 2024 00:00:00 GMT")>>,
     <<B("content-length"), B("4")>>, <<B("content-md5"), B("md5")>>,
     <<B("etag"), B("e1")>> >>
ListingBody ==
  XmlBody(Node("ListBucketResult",
    << Elt("Name", B("b")), Elt("Prefix", <<>>), Elt("Marker", <<>>),
       Elt("MaxKeys", B("100")), Elt("Delimiter", <<>>),
       Elt("IsTruncated", B("false")) >>))
ErrorBody ==
  XmlBody(Node("Error", << Elt("Code", B("NoSuchKey")) >>))
BucketsBody ==
  XmlBody(Node("ListAllMyBucketsResult",
    << Node("Buckets", << Node("Bucket", << Elt("Name", B("b")) >>) >>) >>))
UploadBody ==
  XmlBody(Node("Result",
    << Elt("Bucket", B("b")), Elt("Key", B("o")), Elt("UploadId", B("u")),
       Elt("Location", B("l")), Elt("ETag", B("e1")) >>))
GrantBody ==
  XmlBody(Node("AccessControlPolicy",
    << Node("AccessControlList", << Elt("Grant", B("private")) >>) >>))
MismatchedBody == MalformedBody(BucketsBody.root, "mismatch")
TruncatedBody == MalformedBody(GrantBody.root, "truncated")
Payloads ==
  { [headers |-> ObjectHeaders, body |-> RawBody(B("data"))],
    [headers |-> <<>>, body |-> MismatchedBody],
    [headers |-> <<>>, body |-> TruncatedBody],
    [headers |-> <<>>, body |-> RawBody(<<>>)],
    [headers |-> <<>>, body |-> ListingBody],
    [headers |-> <<>>, body |-> ErrorBody],
    [headers |-> <<>>, body |-> BucketsBody],
    [headers |-> <<>>, body |-> UploadBody],
    [headers |-> <<>>, body |-> GrantBody] }
Responses ==
  { [status |-> status, headers |-> p.headers, body |-> p.body,
     complete |-> TRUE] : status \in Statuses, p \in Payloads }
  \cup { [status |-> status, headers |-> ObjectHeaders,
          body |-> RawBody(B("data")), complete |-> FALSE] :
         status \in Statuses }

\* Response::text, Response::bytes, Response::copy_to
ReadBody(rsp) ==
  IF rsp.complete THEN Ok(rsp.body) ELSE Err(ErrorReqwest("body"))

ETag == B("ETag")
CopySource == B("x-oss-copy-source")

\* What the operation of row o makes of the response rsp: the value it
\* returns.
ObjectOpResult(o, rsp) ==
  LET body == ReadBody(rsp) IN
  IF o.checks_status /\ ~is_success(rsp.status)
  THEN Err(ErrorObject(o.variant, o.text \o StatusDisplay(rsp.status)))
  ELSE CASE o.success = "unit" -> Ok(<<>>)
         [] o.success = "body" -> body
         [] o.success = "grant" ->
              IF ~body.ok THEN body
              ELSE LET result == from_utf8(body.val)
                   IN  IF ~result.ok THEN result
                       ELSE CHOOSE y \in
                              { GrantLoop(v, 1, <<>>) :
                                v \in { BodyEvents(result.val) } } : TRUE
         [] o.success = "ListObjects" ->
              IF ~body.ok THEN body ELSE from_str_ListObjects(body.val)
         [] o.success = "ObjectMeta" -> from_header_map(rsp.headers)
         [] o.success = "ETag" ->
              LET e_tag == HeaderGet(rsp.headers, ETag)
              IN  IF ~e_tag.some \/ ~to_str(e_tag.val).ok
                  THEN Panic("unwrap") ELSE Ok(e_tag.val)
         [] o.success = "InitiateMultipartUploadResult" ->
              IF ~body.ok THEN body
              ELSE from_str_InitiateMultipartUploadResult(body.val)
         [] o.success = "CompleteMultipartUploadResult" ->
              IF ~body.ok THEN body
              ELSE from_str_CompleteMultipartUploadResult(body.val)

\* What list_bucket makes of the response: ListBuckets (async_service.rs)
\* or the buckets alone (service.rs).
ListBucketResult(api, rsp) ==
  LET body == ReadBody(rsp) IN
  IF ~body.ok THEN body
  ELSE IF api = "async" THEN ListBucketsOf(BodyEvents(body.val))
  ELSE BucketsOf(BodyEvents(body.val))

\* RequestBuilder::send that sends the request a second time.
Send_twice(sent, request) == Append(Append(sent, request), request)

\* RequestBuilder::send: the request goes out.
Send(sent, request) == Append(sent, request)

(***************************************************************************)
(* Operations in flight: an operation is invoked and runs up to the point  *)
(* where its request is sent (or returns an error before that), the        *)
(* transport answers, and the operation runs to its return.                *)
(***************************************************************************)
OpHeaders ==
  { None,
    Some([map |-> (B("Content-Type") :> B("ab")),
          iter |-> <<B("Content-Type")>>]),
    Some([map |-> (B("X-Oss-Meta-Foo") :> B("ab")),
          iter |-> <<B("X-Oss-Meta-Foo")>>]),
    Some([map |-> (B("X y") :> B("ab")), iter |-> <<B("X y")>>]) }
OpObjects == { B("o") }
CopySources == { B("/b/s"), B("a") \o <<10>> }

NoResponse ==
  [status |-> 0, headers |-> <<>>, body |-> RawBody(<<>>), complete |-> FALSE]

RowOf(api, name) == CHOOSE o \in ObjectOps : o.api = api /\ o.name = name

\* The operation starts: `frame` are the locals of its request building,
\* `error` is what it returns before sending if `failed`, and `request` is
\* what it sends otherwise.
Start(name, api, object_name, headers, resources, now, src, frame, failed, error, request) ==
  /\ op' = name
  /\ args' = [api |-> api, object_name |-> object_name, headers |-> headers,
              resources |-> resources, now |-> now, src |-> src]
  /\ locals' = [pc |-> IF failed THEN "returned" ELSE "awaiting",
                build |-> frame, answered |-> FALSE, response |-> NoResponse]
  /\ ret' = IF failed THEN error ELSE <<>>
  /\ wire' = IF failed THEN wire ELSE Send(wire, request)
  /\ UNCHANGED <<client, earlier>>

\* An operation on an object is invoked.  copy_object_from_object adds the
\* x-oss-copy-source header to what build_request returned, and
\* put_object_from_file reads the file, before the request is sent.
InvokeObjectOp ==
  /\ op = "idle"
  /\ \E o \in ObjectOps, object_name \in OpObjects, headers \in OpHeaders,
        resources \in CallerResources, now \in Clock, src \in CopySources,
        file_read \in BOOLEAN :
      \E passed_headers \in
           { IF o.caller_headers THEN headers ELSE o.headers },
         passed_resources \in
           { IF o.caller_resources THEN resources ELSE o.resources } :
      \E frame \in { build_request(client, o.req_type, object_name,
                                   passed_headers, passed_resources, now) } :
      LET copies == o.name = "copy_object_from_object"
          reads_file == o.name = "put_object_from_file"
          source == HeaderValueParse(src)
          failed == \/ ~frame.result.ok
                    \/ copies /\ ~source.ok
                    \/ reads_file /\ ~file_read
          error == IF ~frame.result.ok THEN frame.result
                   ELSE IF copies THEN Err(ErrorHttp(source.val))
                   ELSE Err(ErrorIo("load_file"))
          request ==
            IF failed THEN <<>>
            ELSE [ method |-> o.method, url |-> frame.result.val[1],
                   headers |-> IF copies
                               THEN HeaderInsert(frame.result.val[2],
                                                 CopySource, source.val)
                               ELSE frame.result.val[2],
                   body |-> o.body ]
      IN  Start(o.name, o.api, object_name, passed_headers, passed_resources,
                now, IF copies THEN src ELSE <<>>, frame, failed, error,
                request)

\* list_bucket is invoked.
InvokeListBucket ==
  /\ op = "idle"
  /\ \E api \in ServiceApis, resources \in CallerResources, now \in Clock :
      \E frame \in { list_bucket_request(client, resources, now) } :
      LET failed == ~frame.result.ok
          request ==
            IF failed THEN <<>>
            ELSE [ method |-> "GET", url |-> frame.result.val[1],
                   headers |-> frame.result.val[2], body |-> FALSE ]
      IN  Start("list_bucket", api, <<>>, None, resources, now, <<>>, frame,
                failed, frame.result, request)

\* The transport answers the request in flight with an error, or with a
\* response, and the operation runs to its return.
Respond ==
  /\ op # "idle"
  /\ locals.pc = "awaiting"
  /\ \/ /\ ret' = Err(ErrorReqwest("send"))
        /\ locals' = [locals EXCEPT !.pc = "returned"]
     \/ \E rsp \in Responses :
          /\ ret' = IF op = "list_bucket"
                    THEN ListBucketResult(args.api, rsp)
                    ELSE ObjectOpResult(RowOf(args.api, op), rsp)
          /\ locals' = [locals EXCEPT !.pc = "returned", !.answered = TRUE,
                                      !.response = rsp]
  /\ UNCHANGED <<client, op, args, earlier, wire>>

\* The caller takes the result of the operation.
ReturnFromOp ==
  /\ op # "idle"
  /\ locals.pc = "returned"
  /\ Return

NextOps ==
  SetBucket \/ InvokeObjectOp \/ InvokeListBucket \/ Respond \/ ReturnFromOp

SpecOps == Init /\ [][NextOps]_vars

(***************************************************************************)
(* Claims about what the operations make of a response.                    *)
(***************************************************************************)
\* The operation in flight has returned after the transport handed it a
\* response.
Answered == op # "idle" /\ locals.pc = "returned" /\ locals.answered
Is2xx(status) == status \in 200..299
CanNotGetObject == B("can not get object, status code: ")
\* The message names the status code.
CarriesStatus(msg, status) == find(msg, Pad(status, 3)) # 0

DocumentedVariant ==
  [ get_object |-> "GetError", put_object |-> "PutError",
    put_object_from_buffer |-> "PutError",
    put_object_from_file |-> "PutError", upload_part |-> "PutError",
    copy_object_from_object |-> "CopyError", delete_object |-> "DeleteError",
    head_object |-> "HeadError", init_multi |-> "PostError",
    complete_multi |-> "PostError" ]

\* C14: an operation on an object answers a non-2xx response with the
\* ObjectError variant of its own kind, and the message carries the status
\* code.
C14_VariantOfTheOperation ==
  (Answered /\ op \in DOMAIN DocumentedVariant
   /\ ~Is2xx(locals.response.status))
  => /\ ~ret.ok
     /\ ret.val.kind = "Object"
     /\ ret.val.error = DocumentedVariant[op]
     /\ CarriesStatus(ret.val.msg, locals.response.status)

\* The operations that answer a non-2xx response with the variant
\* of another operation.
MisnamedVariant == { <<"async", "put_object">>, <<"async", "head_object">> }

\* C14, apart from the two operations of MisnamedVariant.
C14_VariantOfTheOtherOperations ==
  (Answered /\ <<args.api, op>> \notin MisnamedVariant)
  => C14_VariantOfTheOperation

\* C15: list_object and list_bucket do not return Ok when the response has
\* a non-2xx status.
C15_ListingsRefuseErrorStatus ==
  (Answered /\ op \in {"list_object", "list_bucket"}
   /\ ~Is2xx(locals.response.status))
  => ~ret.ok

\* C15 for the operations that test the status: none returns Ok (or panics)
\* on a non-2xx response.
C15_OthersRefuseErrorStatus ==
  (Answered /\ op \notin {"list_object", "list_bucket"}
   /\ ~Is2xx(locals.response.status))
  => ~ret.ok /\ ret.val.kind = "Object"

\* C16: an invocation sends at most one request: none when building the
\* request failed, and none after the first, whatever the transport
\* answered.
C16_NoRetries ==
  [][ /\ Len(wire') <= 1
      /\ (op # "idle" /\ op' # "idle" => wire' = wire)
      /\ (op = "idle" /\ op' # "idle" /\ ~locals'.build.result.ok
          => wire' = <<>>) ]_vars

\* An operation has returned after a 500 response, with its one request
\* sent.
C16_ReturnedAfterServerError ==
  /\ Answered /\ locals.response.status = 500
  /\ ~ret.ok
  /\ Len(wire) = 1

(***************************************************************************)
(* ObjectMeta::from_header_map on the headers of a response.               *)
(***************************************************************************)
Absent == <<>>
NonAscii == <<118, 195, 169>>
\* The values of the three headers the model draws; Absent stands for a
\* response without the header.
LastModifiedValues ==
  { Absent, B("Mon, 01 Jan 2024 00:00:00 GMT"),
    B("Sun, 06 Nov 1994 08:49:37 GMT"), B("yesterday"),
    B("Mon, 32 Jan 2024 00:00:00 GMT"), NonAscii }
ContentLengthValues == { Absent, B("4"), B("12"), B("x"), B("-1"), NonAscii }
ContentMd5Values == { Absent, B("md5"), B("1B2M2Y8AsgTpgAmY7PhCfg=="), NonAscii }

\* The header map of a response with these values.
HeaderMapOf(last_modified, content_length, content_md5) ==
  (IF last_modified = Absent THEN <<>>
   ELSE << <<to_ascii_lowercase(LastModified), last_modified>> >>)
  \o (IF content_length = Absent THEN <<>>
      ELSE << <<to_ascii_lowercase(ContentLength), content_length>> >>)
  \o (IF content_md5 = Absent THEN <<>>
      ELSE << <<to_ascii_lowercase(ContentMd5OfResponse), content_md5>> >>)
ResponseHeaderMaps ==
  { HeaderMapOf(l, c, m) : l \in LastModifiedValues,
                           c \in ContentLengthValues, m \in ContentMd5Values }

\* from_header_map is called on the headers of a response.
FromHeaderMap ==
  /\ op = "idle"
  /\ \E header \in ResponseHeaderMaps :
       /\ op' = "from_header_map"
       /\ args' = [header |-> header]
       /\ ret' = from_header_map(header)
       /\ locals' = <<>>
       /\ UNCHANGED <<client, earlier, wire>>

NextMeta == FromHeaderMap \/ Return
SpecMeta == Init /\ [][NextMeta]_vars

\* What is wrong with the headers of a response, told from the headers
\* alone.
MetaHeaderNames == { LastModified, ContentLength, ContentMd5OfResponse }
IsAbsent(header, name) == ~HeaderGet(header, name).some
IsMalformed(header, name) ==
  /\ HeaderGet(header, name).some
  /\ \/ ~to_str(HeaderGet(header, name).val).ok
     \/ name = LastModified
        /\ ~parse_http_date(HeaderGet(header, name).val).ok
     \/ name = ContentLength /\ ~ParseUsize(HeaderGet(header, name).val).ok
SomeAbsent(header) == \E name \in MetaHeaderNames : IsAbsent(header, name)
SomeMalformed(header) ==
  \E name \in MetaHeaderNames : IsMalformed(header, name)

\* The kind of an error: the variant of Error and, within Error::Object,
\* the variant of ObjectError.
ErrorKind(e) == <<e.kind, e.error>>
\* The kinds from_header_map reports for headers that are all present, some
\* of them malformed.
KindsForMalformed ==
  { ErrorKind(from_header_map(header).val) :
      header \in { h \in ResponseHeaderMaps :
                     ~SomeAbsent(h) /\ SomeMalformed(h) } }

\* C19: from_header_map returns Ok only if the three headers are present
\* and Last-Modified parses as a date and Content-Length as a number, and
\* it reports an absent header with an error of a kind it never reports
\* for a malformed value.
C19_AbsenceIsAKindOfItsOwn ==
  op = "from_header_map"
  => /\ ret.ok => ~SomeAbsent(args.header) /\ ~SomeMalformed(args.header)
     /\ (SomeAbsent(args.header) /\ ~SomeMalformed(args.header))
        => /\ ~ret.ok
           /\ ErrorKind(ret.val) \notin KindsForMalformed

\* C19, without the kinds: Ok exactly on headers that are present and
\* parse; an absent header is told from a malformed one by the message,
\* which begins with "can not find" for the former only.
C19_AbsenceToldByMessage ==
  op = "from_header_map"
  => /\ ret.ok <=> (~SomeAbsent(args.header) /\ ~SomeMalformed(args.header))
     /\ ~ret.ok => ret.val.kind = "Object" /\ ret.val.error = "HeadError"
     /\ (SomeAbsent(args.header) /\ ~SomeMalformed(args.header))
        => starts_with(ret.val.msg, CanNotFind)
     /\ (~SomeAbsent(args.header) /\ SomeMalformed(args.header))
        => ~starts_with(ret.val.msg, CanNotFind)

(***************************************************************************)
(* Decoding listings: the body of a list_object response is decoded by     *)
(* from_str::<ListObjects>, that of a list_bucket response by the loop of  *)
(* list_bucket.  The documents drawn are well formed and lack any of the   *)
(* field elements.                                                         *)
(***************************************************************************)
\* The text of the field elements of the documents.
FieldText ==
  ("Name" :> B("b")) @@ ("Delimiter" :> B("/")) @@ ("Prefix" :> B("p"))
  @@ ("Marker" :> B("m")) @@ ("MaxKeys" :> B("100"))
  @@ ("IsTruncated" :> TrueText) @@ ("NextMarker" :> B("n"))
  @@ ("CreationDate" :> B("d")) @@ ("ExtranetEndpoint" :> B("x"))
  @@ ("IntranetEndpoint" :> B("i")) @@ ("Location" :> B("l"))
  @@ ("StorageClass" :> B("s"))

\* The elements named in `names` that are `present`, in that order.
FieldElements(names, present) ==
  LET kept == SelectSeq(names, LAMBDA n : n \in present)
  IN  [i \in 1..Len(kept) |-> Elt(kept[i], FieldText[kept[i]])]

\* The text an element has in the document, empty if it is absent.
TextOrEmpty(name, present) == IF name \in present THEN FieldText[name] ELSE <<>>

ListObjectsFieldNames ==
  <<"Name", "Prefix", "Marker", "MaxKeys", "Delimiter", "IsTruncated">>
OwnerElement ==
  Node("Owner", << Elt("ID", B("1")), Elt("DisplayName", B("n")) >>)
ObjectFieldElements ==
  << Elt("Key", B("k")), Elt("LastModified", B("d")), Elt("Size", B("4")),
     Elt("ETag", B("e1")), Elt("Type", B("Normal")),
     Elt("StorageClass", B("s")) >>
\* The Contents elements of a document: none, one object, or one object
\* without Owner.
ContentsChoices ==
  [ none |-> <<>>,
    full |-> << Node("Contents", Append(ObjectFieldElements, OwnerElement)) >>,
    ownerless |-> << Node("Contents", ObjectFieldElements) >> ]

\* A listing of objects with the field elements `present`.
ListObjectsDocument(present, contents) ==
  XmlBody(Node("ListBucketResult",
               FieldElements(ListObjectsFieldNames, present)
               \o ContentsChoices[contents]))

ListBucketsFieldNames ==
  <<"Prefix", "Marker", "MaxKeys", "IsTruncated", "NextMarker">>
BucketFieldNames ==
  <<"CreationDate", "ExtranetEndpoint", "IntranetEndpoint", "Location",
    "Name", "StorageClass">>
\* A listing of one bucket, with the field elements `present` of the
\* listing and `bucket_present` of the bucket.
ListBucketsDocument(present, bucket_present) ==
  XmlBody(Node("ListAllMyBucketsResult",
    FieldElements(ListBucketsFieldNames, present)
    \o << OwnerElement,
          Node("Buckets",
               << Node("Bucket",
                       FieldElements(BucketFieldNames, bucket_present)) >>)
       >>))

\* list_object decodes the body of its response.
DecodeListObjects ==
  /\ op = "idle"
  /\ \E present \in SUBSET Range(ListObjectsFieldNames),
        contents \in DOMAIN ContentsChoices :
       /\ op' = "from_str_ListObjects"
       /\ args' = [present |-> present, bucket_present |-> {},
                   contents |-> contents, api |-> "blocking"]
       /\ ret' = from_str_ListObjects(ListObjectsDocument(present, contents))
       /\ locals' = <<>>
       /\ UNCHANGED <<client, earlier, wire>>

\* list_bucket decodes the body of its response.
DecodeListBuckets ==
  /\ op = "idle"
  /\ \E present \in SUBSET Range(ListBucketsFieldNames),
        bucket_present \in SUBSET Range(BucketFieldNames),
        api \in ServiceApis :
       /\ op' = "list_bucket_loop"
       /\ args' = [present |-> present, bucket_present |-> bucket_present,
                   contents |-> "none", api |-> api]
       /\ ret' = ListBucketResult(api,
                   [status |-> 200, headers |-> <<>>, complete |-> TRUE,
                    body |-> ListBucketsDocument(present, bucket_present)])
       /\ locals' = <<>>
       /\ UNCHANGED <<client, earlier, wire>>

NextXml == DecodeListObjects \/ DecodeListBuckets \/ Return
SpecXml == Init /\ [][NextXml]_vars

\* The bucket the loop of list_bucket makes of the Bucket element.
ExpectedBucket(bucket_present) ==
  [ name |-> TextOrEmpty("Name", bucket_present),
    create_date |-> TextOrEmpty("CreationDate", bucket_present),
    location |-> TextOrEmpty("Location", bucket_present),
    extranet_endpoint |-> TextOrEmpty("ExtranetEndpoint", bucket_present),
    intranet_endpoint |-> TextOrEmpty("IntranetEndpoint", bucket_present),
    storage_class |-> TextOrEmpty("StorageClass", bucket_present) ]

\* Decoding a listing of buckets succeeds whichever field elements are
\* absent, each absent field being the empty string or false.
ListBucketsTolerant ==
  op = "list_bucket_loop"
  => /\ ret.ok
     /\ IF args.api = "async"
        THEN ret.val =
               [ prefix |-> TextOrEmpty("Prefix", args.present),
                 marker |-> TextOrEmpty("Marker", args.present),
                 max_keys |-> TextOrEmpty("MaxKeys", args.present),
                 is_truncated |-> "IsTruncated" \in args.present,
                 next_marker |-> TextOrEmpty("NextMarker", args.present),
                 id |-> B("1"), display_name |-> B("n"),
                 buckets |-> << ExpectedBucket(args.bucket_present) >> ]
        ELSE ret.val = << ExpectedBucket(args.bucket_present) >>

\* Decoding a listing of objects succeeds whichever field elements are
\* absent, each absent field being the empty string, false or the empty
\* sequence.
ListObjectsTolerant ==
  op = "from_str_ListObjects"
  => /\ ret.ok
     /\ ret.val.name = TextOrEmpty("Name", args.present)
     /\ ret.val.delimiter = TextOrEmpty("Delimiter", args.present)
     /\ ret.val.prefix = TextOrEmpty("Prefix", args.present)
     /\ ret.val.marker = TextOrEmpty("Marker", args.present)
     /\ ret.val.max_keys = TextOrEmpty("MaxKeys", args.present)
     /\ ret.val.is_truncated = ("IsTruncated" \in args.present)
     /\ args.contents = "none" => ret.val.contents = <<>>
     /\ ret.val.common_prefixes = <<>>

\* C20: decoding a listing of buckets or of objects from a well-formed
\* body in which field elements are absent succeeds, with each absent
\* field set to the empty string, false or the empty sequence.
C20_AbsentFieldsDefault == ListBucketsTolerant /\ ListObjectsTolerant

\* C20 for the listing of buckets, and for the listing of objects where
\* it holds: a document with the six field elements of ListObjects and
\* whole objects decodes, absent Contents and CommonPrefixes being empty
\* sequences; without one of the six, or without the Owner of an object,
\* decoding fails with a missing field.
C20_OnlySequencesDefault ==
  /\ ListBucketsTolerant
  /\ op = "from_str_ListObjects"
     => IF args.present = Range(ListObjectsFieldNames)
           /\ args.contents # "ownerless"
        THEN ListObjectsTolerant
        ELSE ret = Err(ErrorQxml("missing field"))

(***************************************************************************)
(* Claims about malformed response bodies.                                 *)
(***************************************************************************)
\* The operation in flight has returned after a 2xx response whose body
\* it read to the end.
AnsweredWithBody ==
  /\ Answered /\ locals.response.complete
  /\ Is2xx(locals.response.status)
Panicked == ~ret.ok /\ ret.val.kind = "Panic"

\* C21: list_bucket and get_object_acl never panic on a response body, and
\* answer a body that is no well-formed document with Error::Qxml.
C21_MalformedBodyIsAnError ==
  (AnsweredWithBody /\ op \in {"list_bucket", "get_object_acl"})
  => /\ ~Panicked
     /\ locals.response.body.broken # ""
        => ~ret.ok /\ ret.val.kind = "Qxml"

\* What holds of C21: the two operations panic only on a body on which
\* read_event fails, and a body that ends inside a Grant element is
\* answered with Error::Qxml by get_object_acl.
C21_PanicOnReaderErrorOnly ==
  (AnsweredWithBody /\ op \in {"list_bucket", "get_object_acl"})
  => /\ Panicked <=> locals.response.body.broken = "mismatch"
     /\ (op = "get_object_acl" /\ locals.response.body = TruncatedBody)
        => ret = Err(ErrorQxml("UnexpectedEof"))

(***************************************************************************)
(* Claims about the request an operation sends.                            *)
(***************************************************************************)
\* The operation in flight has sent its request.
Sent == op # "idle" /\ Len(wire) = 1

\* The pieces of s between the occurrences of the byte sep; none for the
\* empty string.
RECURSIVE Split(_, _)
Split(s, sep) ==
  IF s = <<>> THEN <<>>
  ELSE IF \E i \in 1..Len(s) : s[i] = sep
  THEN LET i == CHOOSE j \in 1..Len(s) :
                  s[j] = sep /\ \A k \in 1..(j - 1) : s[k] # sep
       IN  << SubSeq(s, 1, i - 1) >>
           \o (IF i = Len(s) THEN << <<>> >>
               ELSE Split(SubSeq(s, i + 1, Len(s)), sep))
  ELSE << s >>

\* The parameters in the query string of a URL, and in a signed resource
\* string, each as it is written (key or key=value).
QueryEntries(url) ==
  IF find(url, QuestionMark) = 0 THEN {}
  ELSE Range(Split(SubSeq(url, find(url, QuestionMark) + 1, Len(url)), 38))
SignedEntries(resources_str) == Range(Split(resources_str, 38))
KeyOfEntry(entry) == Split(entry, 61)[1]

\* C22: every parameter an operation was given is in the query string of
\* the URL it requests, and the allow-listed parameters of that query
\* string are those of the resource string that was signed.
C22_ParametersInRequestedUrl ==
  (Sent /\ args.resources.some)
  => /\ \A k \in DOMAIN args.resources.val.map :
          Rendered(k, args.resources.val.map[k]) \in QueryEntries(wire[1].url)
     /\ SignedEntries(locals.build.resources_str)
        = { e \in QueryEntries(wire[1].url) :
              e # <<>> /\ KeyOfEntry(e) \in Range(RESOURCES) }

\* C22 for the operations that build their request with build_request.
C22_OfBuildRequest == op = "list_bucket" \/ C22_ParametersInRequestedUrl


(***************************************************************************)
(* Calls on one shared client.  host, get_resources_str, get_params_str,   *)
(* oss_sign and build_request borrow the client as &self; set_bucket       *)
(* borrows it as &mut self, which the borrow checker grants only while no  *)
(* other borrow is alive.  Each thread has its own op, args, ret and       *)
(* locals; build_request reads the client twice, for the URL and for the   *)
(* signature, and other threads run in between.                            *)
(***************************************************************************)
MaxThreads == 2
Threads == 1 .. MaxThreads

SharedResources ==
  Some([ map |-> (B("acl") :> None) @@ (B("max-keys") :> Some(B("5"))),
         iter |-> <<B("max-keys"), B("acl")>> ])
SharedHeaders ==
  { None,
    Some([map |-> (B("Content-Type") :> B("ab")),
          iter |-> <<B("Content-Type")>>]) }

\* The calls the threads make, with their arguments.
SharedCalls ==
  { [name |-> "build_request",
     args |-> [req_type |-> "Get", object_name |-> B("o"), headers |-> h,
               resources |-> SharedResources, now |-> now]] :
      h \in SharedHeaders, now \in Clock }
  \cup { [name |-> "host",
          args |-> [bucket |-> B("b"), object |-> B("o"),
                    resources_str |-> B("acl")]] }
  \cup { [name |-> "oss_sign",
          args |-> [verb |-> B("GET"), key_id |-> B("id"),
                    key_secret |-> B("sk"), bucket |-> B("b"),
                    object |-> B("o"), oss_resources |-> B("acl"),
                    headers |-> << <<B("date"), B("ab")>> >>]] }
  \cup { [name |-> n, args |-> SharedResources.val] :
           n \in {"get_resources_str", "get_params_str"} }

\* What a call returns on the client self when nothing else runs.
Alone(self, name, a) ==
  CASE name = "build_request" ->
         build_request(self, a.req_type, a.object_name, a.headers,
                       a.resources, a.now).result
    [] name = "host" -> host(self, a.bucket, a.object, a.resources_str)
    [] name = "oss_sign" ->
         oss_sign(self, a.verb, a.key_id, a.key_secret, a.bucket, a.object,
                  a.oss_resources, a.headers)
    [] name = "get_resources_str" -> get_resources_str(a.map, a.iter)
    [] name = "get_params_str" -> get_params_str(a.map, a.iter)

\* set_bucket takes &mut self: no call may hold the client.
Exclusive_while_borrowed(ops) == TRUE
Exclusive(ops) == \A t \in Threads : ops[t] = "idle"

InitShared ==
  /\ client = [key_id |-> B("id"), key_secret |-> B("sk"),
               endpoint |-> B("https://oss.example.com"), bucket |-> B("b")]
  /\ op = [t \in Threads |-> "idle"]
  /\ args = [t \in Threads |-> <<>>]
  /\ ret = [t \in Threads |-> <<>>]
  /\ locals = [t \in Threads |-> <<>>]
  /\ earlier = NoCall
  /\ wire = <<>>

\* A thread enters a call; self is the client as the call found it.
SharedCall(t) ==
  /\ op[t] = "idle"
  /\ \E call \in SharedCalls :
      /\ op' = [op EXCEPT ![t] = call.name]
      /\ args' = [args EXCEPT ![t] = call.args]
      /\ locals' = [locals EXCEPT ![t] =
                      [pc |-> "called", self |-> client, url |-> <<>>]]
      /\ UNCHANGED <<client, ret, earlier, wire>>

\* build_request up to its URL: self.host(self.bucket(), ...).
SharedHost(t) ==
  /\ op[t] = "build_request"
  /\ locals[t].pc = "called"
  /\ \E frame \in { build_request(client, args[t].req_type,
                                  args[t].object_name, args[t].headers,
                                  args[t].resources, args[t].now) } :
       locals' = [locals EXCEPT ![t].pc = "hosted", ![t].url = frame.url]
  /\ UNCHANGED <<client, op, args, ret, earlier, wire>>

\* The rest of the call: build_request signs with the client as it is now
\* and returns the URL it built before.
SharedReturn(t) ==
  /\ op[t] # "idle"
  /\ locals[t].pc = IF op[t] = "build_request" THEN "hosted" ELSE "called"
  /\ \E r \in { Alone(client, op[t], args[t]) } :
       ret' = [ret EXCEPT ![t] =
                 IF op[t] = "build_request" /\ r.ok
                 THEN Ok(<<locals[t].url, r.val[2]>>)
                 ELSE r]
  /\ locals' = [locals EXCEPT ![t].pc = "returned"]
  /\ UNCHANGED <<client, op, args, earlier, wire>>

\* The caller takes the result.
SharedTake(t) ==
  /\ op[t] # "idle"
  /\ locals[t].pc = "returned"
  /\ op' = [op EXCEPT ![t] = "idle"]
  /\ args' = [args EXCEPT ![t] = <<>>]
  /\ ret' = [ret EXCEPT ![t] = <<>>]
  /\ locals' = [locals EXCEPT ![t] = <<>>]
  /\ UNCHANGED <<client, earlier, wire>>

SharedSetBucket ==
  /\ Exclusive(op)
  /\ \E bucket \in ClientBuckets :
       client' = [client EXCEPT !.bucket = bucket]
  /\ UNCHANGED <<op, args, ret, locals, earlier, wire>>

SharedStep == \E t \in Threads :
  SharedCall(t) \/ SharedHost(t) \/ SharedReturn(t) \/ SharedTake(t)

NextShared == SharedStep \/ SharedSetBucket

SpecShared == InitShared /\ [][NextShared]_vars

Returned(t) == op[t] # "idle" /\ locals[t].pc = "returned"
Running(t) == op[t] # "idle" /\ locals[t].pc # "returned"

SentVendorBlock ==
  VendorLines(wire[1].headers, VendorNames(wire[1].headers))

\* C24: every header of a sent request whose name contains "x-oss-" is in
\* the vendor block of the signing string whose signature the request
\* carries in Authorization, the x-oss-copy-source header of
\* copy_object_from_object included.
C24_SentVendorHeadersAreSigned ==
  Sent =>
    /\ locals.build.signed
    /\ HeaderValueOf(wire[1].headers, AUTHORIZATION)
         = locals.build.sign.authorization
    /\ locals.build.sign.oss_headers_str = SentVendorBlock

\* What the code keeps of C24: the same for every operation but
\* copy_object_from_object, whose x-oss-copy-source header is sent and not
\* signed.
C24_SignedButForTheCopySource ==
  Sent =>
    /\ locals.build.signed
    /\ HeaderValueOf(wire[1].headers, AUTHORIZATION)
         = locals.build.sign.authorization
    /\ IF op = "copy_object_from_object"
       THEN /\ CopySource \in VendorNames(wire[1].headers)
            /\ find(locals.build.sign.oss_headers_str, CopySource) = 0
       ELSE locals.build.sign.oss_headers_str = SentVendorBlock

\* A request with a vendor header of the caller has been sent.
C24_SentWithVendorHeader ==
  /\ Sent
  /\ op # "copy_object_from_object"
  /\ VendorNames(wire[1].headers) # {}


\* The verb in the signing string: its first line.
SignedVerb == Split(locals.build.sign.sign_str, 10)[1]

\* The HTTP method the operations are documented to use.
DocumentedMethod(name) ==
  CASE name \in {"list_object", "get_object", "get_object_acl", "list_bucket"}
         -> "GET"
    [] name \in {"put_object", "put_object_from_buffer",
                 "put_object_from_file", "upload_part",
                 "copy_object_from_object"} -> "PUT"
    [] name \in {"delete_object", "abort_multi"} -> "DELETE"
    [] name = "head_object" -> "HEAD"
    [] name \in {"init_multi", "complete_multi"} -> "POST"

AgainHeaderKeys == { B("X-Oss-Meta-A"), B("x-oss-meta-a"), B("Content-Type") }
AgainHeaderValues == { B("1"), B("2") }
AgainHeaders ==
  { None } \cup
  UNION { { Some([map |-> m, iter |-> iter]) :
              m \in [Range(iter) -> AgainHeaderValues] } :
          iter \in IterOrders(AgainHeaderKeys, 2) }

BuildRequestAgain ==
  /\ op = "idle"
  /\ \E headers \in AgainHeaders, now \in Clock :
      \E frame \in { build_request(client, "Put", B("o"), headers, None,
                                   now) } :
        /\ op' = "build_request"
        /\ args' = [req_type |-> "Put", object_name |-> B("o"),
                    headers |-> headers, resources |-> None, now |-> now]
        /\ ret' = frame.result
        /\ locals' = frame
        /\ UNCHANGED <<client, earlier, wire>>

RememberBuild ==
  /\ op = "build_request"
  /\ earlier' = [kept |-> TRUE, self |-> client, args |-> args, ret |-> ret]
  /\ UNCHANGED <<client, op, args, ret, locals, wire>>

NextAgain == SetBucket \/ BuildRequestAgain \/ RememberBuild \/ Return

SpecAgain == Init /\ [][NextAgain]_vars

\* The caller's header maps are equal as maps: same keys, same values.
SameHeaderMap(g, h) ==
  /\ g.some = h.some
  /\ g.some => g.val.map = h.val.map

\* build_request is called with the arguments, clock reading and client of
\* the call remembered.
RepeatedBuild ==
  /\ op = "build_request"
  /\ earlier.kept
  /\ earlier.self = client
  /\ earlier.args.req_type = args.req_type
  /\ earlier.args.object_name = args.object_name
  /\ earlier.args.resources = args.resources
  /\ earlier.args.now = args.now
  /\ SameHeaderMap(earlier.args.headers, args.headers)

\* Two keys of the caller's map are the same header name.
CaseVariantKeys(h) ==
  /\ h.some
  /\ \E j, k \in DOMAIN h.val.map :
       j # k /\ to_ascii_lowercase(j) = to_ascii_lowercase(k)

SameUrlAndHeaderSet ==
  /\ earlier.ret.ok = ret.ok
  /\ ret.ok => /\ earlier.ret.val[1] = ret.val[1]
               /\ Range(earlier.ret.val[2]) = Range(ret.val[2])

\* C26: two calls of build_request with equal verb, object name, caller
\* header map and resource map on the same client at the same clock reading
\* return the same URL and the same header set, also when two keys of the
\* header map differ only in letter case.
C26_SameMapSameRequest == RepeatedBuild => SameUrlAndHeaderSet

\* What the code keeps of C26: the same for header maps whose keys are
\* different header names.
C26_SameRequestForDistinctNames ==
  (RepeatedBuild /\ ~CaseVariantKeys(args.headers)) => SameUrlAndHeaderSet


(***************************************************************************)
(* The loop of list_bucket over listings with several Bucket elements,     *)
(* each with its own field elements and its own texts, and with any        *)
(* IsTruncated elements.                                                   *)
(***************************************************************************)
MaxBuckets == 2
TruncatedTexts ==
  { <<>>, <<TrueText>>, <<FalseText>>, <<B("TRUE")>>,
    <<TrueText, FalseText>>, <<FalseText, TrueText>> }

\* The text of a field element of the i-th Bucket.
BucketFieldText(i, name) == FieldText[name] \o <<48 + i>>

BucketElement(i, present) ==
  LET kept == SelectSeq(BucketFieldNames, LAMBDA n : n \in present)
  IN  Node("Bucket",
           [k \in 1..Len(kept) |-> Elt(kept[k], BucketFieldText(i, kept[k]))])

\* A listing with the IsTruncated elements of the texts `truncated` and
\* one Bucket for each set of field names in `presents`.
BucketSequenceDocument(truncated, presents) ==
  XmlBody(Node("ListAllMyBucketsResult",
    [k \in 1..Len(truncated) |-> Elt("IsTruncated", truncated[k])]
    \o << OwnerElement,
          Node("Buckets",
               [i \in 1..Len(presents) |-> BucketElement(i, presents[i])]) >>))

\* The field elements a Bucket has: all six, all but one, one, or none.
BucketFieldSets ==
  { present \in SUBSET Range(BucketFieldNames) :
      Cardinality(present) \in {0, 1, 5, 6} }

\* list_bucket runs its loop over the body of its response.
DecodeBucketSequence ==
  /\ op = "idle"
  /\ \E n \in 0..MaxBuckets, truncated \in TruncatedTexts,
        api \in ServiceApis :
      \E presents \in [1..n -> BucketFieldSets] :
       /\ op' = "list_bucket_loop"
       /\ args' = [truncated |-> truncated, presents |-> presents,
                   api |-> api]
       /\ \E r \in { ListBucketResult(api,
                       [status |-> 200, headers |-> <<>>, complete |-> TRUE,
                        body |-> BucketSequenceDocument(truncated,
                                                        presents)]) } :
            ret' = r
       /\ locals' = <<>>
       /\ UNCHANGED <<client, earlier, wire>>

NextBuckets == DecodeBucketSequence \/ Return
SpecBuckets == Init /\ [][NextBuckets]_vars

\* The entry for the i-th Bucket: the texts of its field elements, empty
\* for those it lacks.
EntryOf(i, present) ==
  LET TextOf(name) == IF name \in present THEN BucketFieldText(i, name)
                      ELSE <<>>
  IN  [ name |-> TextOf("Name"), create_date |-> TextOf("CreationDate"),
        location |-> TextOf("Location"),
        extranet_endpoint |-> TextOf("ExtranetEndpoint"),
        intranet_endpoint |-> TextOf("IntranetEndpoint"),
        storage_class |-> TextOf("StorageClass") ]

ReturnedBuckets == IF args.api = "async" THEN ret.val.buckets ELSE ret.val

OneEntryPerBucket ==
  /\ ret.ok
  /\ ReturnedBuckets
       = [i \in 1..Len(args.presents) |-> EntryOf(i, args.presents[i])]

\* C27: the loop returns one entry per closed Bucket element, in document
\* order, each with the texts of that Bucket's field elements and the empty
\* string for those it lacks, whatever the Buckets before it had; and
\* is_truncated is true iff an IsTruncated element with the text "true" was
\* read.
C27_EntriesAndTruncation ==
  op = "list_bucket_loop" =>
    /\ OneEntryPerBucket
    /\ args.api = "async" =>
         (ret.val.is_truncated <=> TrueText \in Range(args.truncated))

\* C27 with the flag as the code sets it: is_truncated is true iff the last
\* IsTruncated element read has the text "true".
C27_EntriesAndLastTruncation ==
  op = "list_bucket_loop" =>
    /\ OneEntryPerBucket
    /\ args.api = "async" =>
         (ret.val.is_truncated <=>
            /\ args.truncated # <<>>
            /\ args.truncated[Len(args.truncated)] = TrueText)

\* The second Bucket lacks a field element that the first one has, and the
\* listing's IsTruncated reads "true".
C27_SecondBucketLacksAField ==
  /\ op = "list_bucket_loop"
  /\ args.api = "async"
  /\ Len(args.presents) = 2
  /\ "Location" \in args.presents[1]
  /\ "Location" \notin args.presents[2]
  /\ args.truncated = <<TrueText>>
  /\ ret.ok
  /\ ret.val.buckets[2].location = <<>>

====
